---- MODULE Spec2Model ----
(***************************************************************************)
(* simple-registry: the cached storage trie (cachedStorage over storage    *)
(* over an etcd Database) and the registry cache, as state machines.       *)
(*                                                                         *)
(* Strings are sequences of tokens: "/" is the separator character, every  *)
(* other token is a run of non-separator characters.  A tree node is named *)
(* by its path from the root (a sequence of segments), the tree is the     *)
(* function from the paths of its nodes to their value lists.              *)
(***************************************************************************)
EXTENDS Integers, Sequences, FiniteSets, Bags, TLC

\* ------------------------------------------------------------ bounds
\* how many foreground calls and remote-originated changes one run makes
MaxOps == 3

\* how many goroutines call GetStorage with the name
MaxCallers == 2

\* ------------------------------------------------------------ strings
\* byte order of the tokens ("/" < letters), as etcd sorts keys
Alphabet == <<"/", "1", "2", "@", "_", "a", "b", "c", "h", "p", "registry", "s",
              "storage", "t", "u">>

TokenRank(t) == CHOOSE i \in 1..Len(Alphabet) : Alphabet[i] = t

HasPrefix(s, p) == Len(s) >= Len(p) /\ SubSeq(s, 1, Len(p)) = p

HasSuffix(s, p) == Len(s) >= Len(p) /\ SubSeq(s, Len(s) - Len(p) + 1, Len(s)) = p

TrimPrefix(s, p) == IF HasPrefix(s, p) THEN SubSeq(s, Len(p) + 1, Len(s)) ELSE s

\* strings.Split(s, sep) for a one-character sep: always at least one segment
RECURSIVE Split(_, _)
Split(s, sep) ==
    IF \A i \in 1..Len(s) : s[i] # sep
    THEN <<s>>
    ELSE LET i == CHOOSE j \in 1..Len(s) :
                      s[j] = sep /\ \A h \in 1..(j - 1) : s[h] # sep
         IN  <<SubSeq(s, 1, i - 1)>> \o Split(SubSeq(s, i + 1, Len(s)), sep)

\* strings.Join(pos, sep)
RECURSIVE Join(_, _)
Join(pos, sep) ==
    IF Len(pos) = 0 THEN <<>>
    ELSE IF Len(pos) = 1 THEN pos[1]
    ELSE pos[1] \o <<sep>> \o Join(Tail(pos), sep)

\* lexicographic byte order on strings
RECURSIVE StrLess(_, _)
StrLess(a, b) ==
    IF Len(b) = 0 THEN FALSE
    ELSE IF Len(a) = 0 THEN TRUE
    ELSE IF a[1] # b[1] THEN TokenRank(a[1]) < TokenRank(b[1])
    ELSE StrLess(Tail(a), Tail(b))

\* the keys of S in ascending order
RECURSIVE SortKeys(_)
SortKeys(S) ==
    IF S = {} THEN <<>>
    ELSE LET m == CHOOSE x \in S : \A y \in S \ {x} : StrLess(x, y)
         IN  <<m>> \o SortKeys(S \ {m})

\* ------------------------------------------------------------ configuration
Separator == "/"

Prefix == <<"/", "p", "/">>

getStoragePrefix == Prefix \o <<"storage", "/">>

getRegistryPrefix == Prefix \o <<"registry", "/">>

\* the names a storage is asked for (GetStorage(name)): an ordinary one, and
\* the one that reads like the first segment of every storage key
StorageNames == {<<"t">>, <<"storage">>}

VARIABLE name   \* storage.name of the cache under study

\* storage.prefix is what GetStorage hands newStorage: getStoragePrefix()
buildStorageKey(key) ==
    getStoragePrefix \o <<"storage">> \o <<Separator>> \o name \o <<Separator>> \o key

\* ------------------------------------------------------------ values
\* a caller's value (interface{}): its dynamic type and its textual form
IntOne == [type |-> "int", text |-> "1"]
StrX == [type |-> "string", text |-> "x"]
Values == {IntOne, StrX}

\* the bytes etcd hands back
Bytes(text) == [type |-> "bytes", text |-> text]

\* g.NewVar(value): a Var wrapping the value as given
NewVar(value) == [type |-> "var", val |-> value]

\* gconv.String(value); a *g.Var converts through its own String()
RECURSIVE gconvString(_)
gconvString(value) ==
    IF value.type = "var" THEN gconvString(value.val) ELSE value.text

VarString(var) == gconvString(var.val)

NoErr == "nil"
ErrStorageNotFound == "not found in storage"
ErrAlreadyRegistered == "already registered"
ErrServiceNotFound == "service not found"
DbErrors == {"etcd: unavailable", "etcd: permission denied"}

\* ------------------------------------------------------------ the storage tree
\* cachedStorage.root: a storageNode per path, holding its values ([]*KV)
EmptyRoot == [p \in {<<>>} |-> <<>>]

\* a nil cachedStorage.root: no node at all
NilRoot == <<>>

\* what a call ends with that reads node.next or node.mu of a nil root: the
\* run-time panic of a nil pointer dereference
ErrPanic == "panic: nil pointer dereference"

Prefixes(path) == {SubSeq(path, 1, n) : n \in 0..Len(path)}

\* node.next of the node at path p
Children(root, p) ==
    {q \in DOMAIN root : Len(q) = Len(p) + 1 /\ SubSeq(q, 1, Len(p)) = p}

\* the node at path and the nodes on the way to it, created where missing
\* (node.next.Load, else node.next.Store of a fresh storageNode)
WalkOrCreate(root, path) ==
    [q \in DOMAIN root \cup Prefixes(path) |->
        IF q \in DOMAIN root THEN root[q] ELSE <<>>]

appendValues(values, kv) == Append(values, kv)

updateOrInsertValue(values, key, value) ==
    IF \E i \in 1..Len(values) : values[i].Key = key
    THEN LET i == CHOOSE j \in 1..Len(values) :
                      values[j].Key = key /\ \A h \in 1..(j - 1) : values[h].Key # key
         IN  [values EXCEPT ![i].Value = NewVar(value)]
    ELSE Append(values, [Key |-> key, Value |-> NewVar(value)])

\* the range loop of removeValue over the backing array arr of the slice as
\* it was on entry, n the current length of n.values, i the (1-based) index:
\* a match shifts the tail left in place and shortens n.values by one.
\* (A match at an index past n would slice out of range; value keys within
\* one node are distinct, so a second match never happens.)
RECURSIVE removeValueLoop(_, _, _, _)
removeValueLoop(arr, n, i, key) ==
    IF i > Len(arr) THEN SubSeq(arr, 1, n)
    ELSE IF arr[i].Key = key /\ i <= n
    THEN removeValueLoop(
             [j \in 1..Len(arr) |-> IF j >= i /\ j < n THEN arr[j + 1] ELSE arr[j]],
             n - 1, i + 1, key)
    ELSE removeValueLoop(arr, n, i + 1, key)

removeValue(values, key) == removeValueLoop(values, Len(values), 1, key)

NonEmptySegs(pos) == SelectSeq(pos, LAMBDA po : po # <<>>)

setCache(root, key, value) ==
    LET pos  == Split(TrimPrefix(key, buildStorageKey(<<>>)), Separator)
        path == NonEmptySegs(pos)
        r1   == WalkOrCreate(root, path)
    IN  [r1 EXCEPT ![path] = updateOrInsertValue(r1[path], key, value)]

\* node.next.Delete(segment): the child and everything below it go
DropChild(root, child) ==
    [q \in {x \in DOMAIN root : ~HasPrefix(x, child)} |-> root[q]]

\* remove taking the subtree branch whatever the key ends in
removeDroppingSubtree(root, key) ==
    LET pos    == Split(TrimPrefix(key, buildStorageKey(<<>>)), Separator)
        node   == NonEmptySegs(SubSeq(pos, 1, Len(pos) - 1))
        target == Append(node, pos[Len(pos)])
    IN  IF node \notin DOMAIN root THEN root
        ELSE IF target \in DOMAIN root
        THEN DropChild(root, target)
        ELSE [root EXCEPT ![node] = removeValue(root[node], buildStorageKey(key))]

remove(root, key) ==
    LET pos    == Split(TrimPrefix(key, buildStorageKey(<<>>)), Separator)
        node   == NonEmptySegs(SubSeq(pos, 1, Len(pos) - 1))
        target == Append(node, pos[Len(pos)])
    IN  IF node \notin DOMAIN root THEN root
        ELSE IF target \in DOMAIN root
        THEN IF HasSuffix(key, <<Separator>>)
             THEN DropChild(root, target)
             ELSE [root EXCEPT ![target] = removeValue(root[target], buildStorageKey(key))]
        ELSE [root EXCEPT ![node] = removeValue(root[node], buildStorageKey(key))]

RECURSIVE SeqToBag(_)
SeqToBag(s) ==
    IF Len(s) = 0 THEN EmptyBag ELSE SetToBag({s[1]}) (+) SeqToBag(Tail(s))

\* dfs that does not descend into node.next
dfsNodeOnly(root, node) == SeqToBag(root[node])

\* the dfs closure of Get: the node's values, then every child in the
\* (unspecified) order of sync.Map.Range; the result is kept as a bag
RECURSIVE dfs(_, _)
RECURSIVE dfsRange(_, _)
dfs(root, node) ==
    SeqToBag(root[node]) (+) dfsRange(root, Children(root, node))

dfsRange(root, kids) ==
    IF kids = {} THEN EmptyBag
    ELSE LET c == CHOOSE x \in kids : TRUE
         IN  dfs(root, c) (+) dfsRange(root, kids \ {c})

\* the descent of Get storing a fresh node where it misses one, as the
\* descent of setCache does
getDescentStoring(root, pos) == WalkOrCreate(root, pos)

\* the tree the descent of Get leaves: node.next.Load stores nothing
getDescent(root, pos) == root

\* cachedStorage.Get(key...): k is <<>> when no key is given; root is the
\* tree the call leaves
Get(root, k) ==
    IF k = <<>> THEN [vs |-> dfs(root, <<>>), err |-> NoErr, root |-> root]
    ELSE LET pos == Split(k, Separator)
         IN  IF pos \notin DOMAIN root
             THEN [vs |-> EmptyBag, err |-> ErrStorageNotFound,
                   root |-> getDescent(root, pos)]
             ELSE [vs |-> dfs(root, pos), err |-> NoErr, root |-> getDescent(root, pos)]

\* the loop of buildCache over the scanned kvs
RECURSIVE buildCacheLoop(_, _)
buildCacheLoop(root, kvs) ==
    IF Len(kvs) = 0 THEN root
    ELSE LET kv  == kvs[1]
             pos == Split(TrimPrefix(kv.Key, buildStorageKey(<<>>)), Separator)
             r1  == WalkOrCreate(root, pos)
         IN  IF ~HasPrefix(kv.Key, buildStorageKey(<<>>))
             THEN buildCacheLoop(root, Tail(kvs))
             ELSE buildCacheLoop([r1 EXCEPT ![pos] = appendValues(r1[pos], kv)],
                                 Tail(kvs))

handleEvent(root, t, key, value) ==
    LET k == buildStorageKey(key)
    IN  IF t \in {"upsert", "create"} THEN setCache(root, k, value)
        ELSE IF t = "delete" THEN remove(root, k)
        ELSE root

\* ------------------------------------------------------------ the remote store (etcd)
\* remote: the keys etcd holds, each with its value bytes (as text)
\* lease:  the keys written under a lease, each with whether a keepalive
\*         task renews it
\* watchQ: the events of the storage watch not yet handed to its handler

\* e.cli.Get(ctx, key, WithPrefix()): the kvs under the prefix, in key order
GetPrefix(store, pfx) ==
    LET keys == SortKeys({k \in DOMAIN store : HasPrefix(k, pfx)})
    IN  [i \in 1..Len(keys) |-> [Key |-> keys[i], Value |-> NewVar(Bytes(store[keys[i]]))]]

\* e.cli.Put(ctx, key, gconv.String(value))
etcdPut(store, key, value) ==
    [k \in DOMAIN store \cup {key} |-> IF k = key THEN gconvString(value) ELSE store[k]]

\* the keys e.cli.Delete(ctx, key, opts...) removes: the prefix range when
\* the key ends in "/", else the key itself
etcdDeleted(store, key) ==
    IF HasSuffix(key, <<"/">>)
    THEN {k \in DOMAIN store : HasPrefix(k, key)}
    ELSE {k \in DOMAIN store : k = key}

etcdDelete(store, key) ==
    [k \in DOMAIN store \ etcdDeleted(store, key) |-> store[k]]

\* the Event etcd.watch builds for a put of key
PutEvent(store, key, value) ==
    [Type  |-> IF key \in DOMAIN store THEN "upsert" ELSE "create",
     Key   |-> key,
     Value |-> NewVar(Bytes(gconvString(value)))]

\* the Events etcd.watch builds for the removal of keys, in key order
DeleteEvents(keys) ==
    LET ks == SortKeys(keys)
    IN  [i \in 1..Len(ks) |-> [Type |-> "delete", Key |-> ks[i], Value |-> NewVar(Bytes(""))]]

\* the events of es that the watch of prefix pfx receives
Watched(es, pfx) == SelectSeq(es, LAMBDA e : HasPrefix(e.Key, pfx))

\* ------------------------------------------------------------ storage (the uncached layer)
\* the remote key storage.Set writes
storageSetKey(key) ==
    IF ~HasPrefix(key, name) THEN buildStorageKey(key) ELSE key

\* the remote key storage.SetTTL writes
storageSetTTLKey(key) == storageSetKey(key)

\* the remote key storage.Delete removes
storageDeleteKey(key) == buildStorageKey(key)

\* ------------------------------------------------------------ cachedStorage calls
\* the tree and the error a call leaves, given the error err of its remote write
cachedSet(root, key, value, err) ==
    IF err # NoErr THEN [root |-> root, err |-> err]
    ELSE [root |-> setCache(root, buildStorageKey(key), value), err |-> NoErr]

cachedSetTTL(root, key, value, err) ==
    IF err # NoErr THEN [root |-> root, err |-> err]
    ELSE [root |-> setCache(root, buildStorageKey(key), value), err |-> NoErr]

\* Delete pruning the tree before it looks at the error
cachedDeleteUnchecked(root, key, err) ==
    [root |-> remove(root, key), err |-> err]

cachedDelete(root, key, err) ==
    IF err # NoErr THEN [root |-> root, err |-> err]
    ELSE [root |-> remove(root, key), err |-> NoErr]

\* buildCache extending the current root instead of a fresh one
buildCacheInPlace(root, store, err) ==
    IF err # NoErr THEN root
    ELSE buildCacheLoop(root, GetPrefix(store, buildStorageKey(<<>>)))

\* buildCache: a failed scan returns before the tree is touched
buildCache(root, store, err) ==
    IF err # NoErr THEN root
    ELSE buildCacheLoop(EmptyRoot, GetPrefix(store, buildStorageKey(<<>>)))

\* the storage name and the key the handler of watchAndUpdateCaches reads
\* off an event: the first segment after the prefix, and the rest
eventName(e) == Split(TrimPrefix(e.Key, getStoragePrefix), Separator)[1]

eventKey(e) == Join(Tail(Split(TrimPrefix(e.Key, getStoragePrefix), Separator)), Separator)

\* the goroutines that call GetStorage, each naming the cache it creates
Callers == 1..MaxCallers

\* no cachedStorage: s.m.Load found nothing, cs is nil
NoCache == 0

\* a goroutine that has not called GetStorage
NotCalled == [pc |-> "idle", cs |-> NoCache, tree |-> NilRoot]

\* a goroutine whose GetStorage returned the cache c
Returned(c) == [pc |-> "returned", cs |-> c, tree |-> NilRoot]

\* the handler of storages.watchAndUpdateCaches on the cache s.m holds under
\* the name
watchHandler(root, e) ==
    LET pos == Split(TrimPrefix(e.Key, getStoragePrefix), Separator)
        to  == pos[1]
        key == Join(Tail(pos), Separator)
    IN  IF to = name THEN handleEvent(root, e.Type, key, e.Value) ELSE root

\* ------------------------------------------------------------ state
VARIABLES
    root,       \* cachedStorage.root of the cache of that name
    remote,     \* etcd: key -> value text
    lease,      \* etcd: leased key -> whether a keepalive task renews it
    watchQ,     \* storage watch: the events of the response in hand, not yet handled
    stoAt,      \* storage watch task: where it is in the loop of etcd.watch
    stoEvs,     \* storages.evs: the storage names with an external handler
    stoCalls,   \* the calls made to the external handlers, in order
    ctxDone,    \* the context given to Init is cancelled
    last,       \* the last foreground call: what it was given and returned
    ops,        \* calls and remote-originated changes so far
    currentInstance,  \* the process-wide currentInstance, NoInstance for nil
    cache,      \* registry.cache: service name -> Service.instances
    regQ,       \* registry watch: the events of the response in hand, not yet handled
    regAt,      \* registry watch task: where it is in the loop of etcd.watch
    evs,        \* registry.evs: the chain of event handlers, first to last
    pending,    \* the handler goroutines pushEvent started that have not run yet
    invoked,    \* the handler invocations that have begun, in the order they began
    owed,       \* history: the changes other processes committed, each with a
                \* handler that was in the chain when it committed
    panicked,   \* the process died of a panic
    build,      \* the rebuild of the registry cache inside register: where it is,
                \* the scanned kvs it has not got to, whether the cache still holds
                \* the Service it has stored and not yet appended to, and (history)
                \* the identities its end must find cached
    rehAt,      \* the RegisterEventHandler call of each handler, made by a goroutine
                \* of its own: where it is, and the end of the chain it has found
    walk,       \* the dfs of a Get taken step by step: the key, the nodes whose
                \* dfs call has not returned (innermost last, each with the
                \* children Range has yet to visit), the values gathered
    stoM,       \* storages.m: the cache stored under the name, NoCache for none
    watchLog,   \* history of the storage watch, kept where it is observed: the
                \* events committed under the watched prefix, in commit order,
                \* and the events etcd.watch has handed to its handler, in the
                \* order of the calls
    getAt,      \* the GetStorage(name) call of each goroutine: where it is, the
                \* cache it holds, the tree of that cache while s.m does not hold it
    onceLoad,   \* onceLoad: its Do has run the initialisation of Init
    Registry,   \* the global Registry, NilHandle while nil
    Storages,   \* the global Storages, NilHandle while nil
    owned       \* history: the instance a register call of this process has
                \* written to etcd with success, NoInstance while none has

getVars == <<stoM, getAt>>

\* the globals of registry.go that Init sets
initVars == <<onceLoad, Registry, Storages>>

stoVars == <<name, root, watchQ, stoAt, stoEvs, stoCalls, getVars, walk, watchLog>>

\* the registry's state, less the flag of the panic
regQuiet == <<currentInstance, cache, regQ, owned, regAt, evs, pending, invoked, owed,
              build, rehAt>>

regVars == <<regQuiet, panicked>>

\* what the calls of a cachedStorage leave alone
stoRest == <<name, regQuiet, ctxDone, stoEvs, stoCalls, getVars, walk>>

\* what the calls of the registry leave alone
regRest == <<stoVars, ctxDone, evs, pending, invoked, build, rehAt>>

vars == <<name, root, remote, lease, watchQ, last, ops, currentInstance, cache, regQ,
          panicked, owned, stoAt, stoEvs, stoCalls, ctxDone, regAt, evs, pending,
          invoked, owed, stoM, getAt, build, rehAt, walk, watchLog, initVars>>

\* ------------------------------------------------------------ the loop of etcd.watch
\* A watch task is at one of four places: "watch", at the top of the loop,
\* about to evaluate e.cli.Watch(ctx, key, opts...), which creates a new watch
\* starting at the revision the store has then; "select", blocked on the
\* channel of that watch and on ctx.Done(); "handle", in the loop over the
\* events of the response it received; "done", returned.

\* what a commit with the events es does to a watch task: the response
\* reaches it through the watch it is blocked on.  Every turn of the loop
\* creates a watch of its own and reads one response from it, so what commits
\* while the task is anywhere else goes to a channel nobody reads.
received(at, q, es) ==
    IF at = "select" /\ es # <<>> /\ ~ctxDone
    THEN [at |-> "handle", q |-> es]
    ELSE [at |-> at, q |-> q]

\* where the task is once the handler has returned for the head of q
afterEvent(q) == IF Len(q) > 1 THEN "handle" ELSE "watch"

\* the select never taking the case of ctx.Done()
selectIgnoringDone(at) == at

\* the select with the context done: the task returns from the top of the
\* loop or from the select, and goes on with the events of a response it is in
selectDone(at) == IF at \in {"watch", "select"} THEN "done" ELSE at

\* the history of a watch task before any commit, kept from here on or not
NoLog(on) == [on |-> on, committed |-> <<>>, delivered |-> <<>>]

\* history: the store commits the events es
committed(l, es) == IF l.on THEN [l EXCEPT !.committed = @ \o es] ELSE l

\* history: etcd.watch calls handler(ctx, e)
delivered(l, e) == IF l.on THEN [l EXCEPT !.delivered = Append(@, e)] ELSE l

\* ------------------------------------------------------------ inputs
Ka  == <<"a">>
Kab == <<"a", "/", "b">>
Kac == <<"a", "/", "c">>
KaSlash == <<"a", "/">>
Kaab == <<"a", "/", "/", "b">>

\* keys given to Set and SetTTL (a Put of a key ending in "/" carries a
\* range option, which the etcd client rejects by panicking); name is the key
\* that starts with the storage name, as the key of TestStorage_SetTTL does
SetKeys == {Ka, Kab, Kac, name, Kaab}
TTLKeys == {Ka}
DeleteKeys == {<<>>, Ka, Kab, KaSlash, name}
GetKeys == {<<>>, Ka, Kab, Kac, name, KaSlash, Kaab}
\* keys another process writes into the namespace of the storage
OtherKeys == {buildStorageKey(Kab), buildStorageKey(KaSlash)}

NoValue == [type |-> "none", text |-> ""]

\* no Get is inside its dfs
NoWalk == [on |-> FALSE, k |-> <<>>, stack |-> <<>>, vs |-> <<>>]

\* the event handlers a program registers
Handlers == {"h1", "h2"}

\* no eventWrapper: r.evs of an empty chain
NoWrapper == "nil"

\* a global handle that is nil, and one that Init has set
NilHandle == "nil"
SetHandle == "set"

\* a handler no goroutine is registering
NotRegistering == [pc |-> "idle", tail |-> NoWrapper]

\* no rebuild inside register has begun (what the calls modelled whole leave)
NoBuild == [pc |-> "idle", kvs |-> <<>>, keep |-> {}, mine |-> FALSE]

\* a nil *Instance
NoInstance == [Id |-> "", Host |-> "", ServiceName |-> "", Meta |-> ""]

\* the record of a call: its place in the run, its arguments, the error the
\* remote store gave it, the error and the kvs it returned
Call(op, key, value, dbErr, err, vs) ==
    [at |-> ops + 1, op |-> op, key |-> key, value |-> value,
     dbErr |-> dbErr, err |-> err, vs |-> vs]

\* what a remote call may return
DbResults == {NoErr} \cup DbErrors

\* leases of the keys still stored, a plain put dropping the key's lease
LeaseAfter(ls, store, dropped) ==
    [k \in (DOMAIN ls \cap DOMAIN store) \ dropped |-> ls[k]]

\* what etcd may hold under the namespace when GetStorage builds the cache:
\* nothing, or the three keys of TestCachedStorage (key3, key3/1, key3/2)
InitialStores ==
    {<<>>,
     [k \in {buildStorageKey(Ka), buildStorageKey(Kab), buildStorageKey(Kac)} |->
         IF k = buildStorageKey(Kab) THEN "1" ELSE "x"]}

\* newCachedStorage: the cache as buildCache leaves it after a successful scan,
\* the watch task of the storages being at the place at of its loop
StorageStartWith(at, on) ==
    /\ name \in StorageNames
    /\ remote \in InitialStores
    /\ root = buildCache(EmptyRoot, remote, NoErr)
    /\ lease = <<>>
    /\ watchQ = <<>>
    /\ stoAt = at
    /\ watchLog = NoLog(on)
    /\ stoEvs = {}
    /\ stoCalls = <<>>
    /\ ctxDone = FALSE
    /\ last = [at |-> 0, op |-> "none", key |-> <<>>, value |-> NoValue,
               dbErr |-> NoErr, err |-> NoErr, vs |-> EmptyBag]
    /\ ops = 0
    /\ currentInstance = NoInstance
    /\ cache = <<>>
    /\ regQ = <<>>
    /\ regAt = "watch"
    /\ evs = <<>>
    /\ pending = {}
    /\ invoked = <<>>
    /\ owed = {}
    /\ panicked = FALSE
    /\ owned = NoInstance
    /\ stoM = 1
    /\ getAt = [c \in Callers |-> IF c = 1 THEN Returned(1) ELSE NotCalled]
    /\ build = NoBuild
    /\ walk = NoWalk
    /\ rehAt = [h \in Handlers |-> NotRegistering]
    /\ onceLoad = TRUE
    /\ Registry = SetHandle
    /\ Storages = SetHandle

StorageStart(at) == StorageStartWith(at, FALSE)

\* the task has not created its first watch yet
Init == StorageStart("watch")

\* the first watch of the task is in place
WatchedInit == StorageStart("select")

\* the first watch of the task is in place, and the history of the watch is
\* kept from there
LoggedInit == StorageStartWith("select", TRUE)

\* ------------------------------------------------------------ foreground calls
\* cachedStorage.Set(ctx, key, value); setCache on a nil root panics
Set(key, value, dbErr) ==
    /\ UNCHANGED initVars
    /\ ~panicked
    /\ UNCHANGED stoRest
    /\ ops < MaxOps
    /\   LET rkey == storageSetKey(key)
             ok   == dbErr = NoErr
             r    == IF root = NilRoot
                     THEN [root |-> root, err |-> IF ok THEN ErrPanic ELSE dbErr]
                     ELSE cachedSet(root, key, value, dbErr)
         IN  /\ panicked' = (r.err = ErrPanic)
             /\ remote' = IF ok THEN etcdPut(remote, rkey, value) ELSE remote
             /\ lease' = IF ok THEN LeaseAfter(lease, remote, {rkey}) ELSE lease
             /\ LET ces == IF ok THEN Watched(<<PutEvent(remote, rkey, value)>>,
                                         getStoragePrefix)
                      ELSE <<>>
                    w == received(stoAt, watchQ, ces)
                IN  watchQ' = w.q /\ stoAt' = w.at /\ watchLog' = committed(watchLog, ces)
             /\ root' = r.root
             /\ last' = Call("Set", key, value, dbErr, r.err, EmptyBag)
    /\ ops' = ops + 1

\* cachedStorage.SetTTL(ctx, key, value, ttl, keepalive) with ttl > 0: the
\* lease grant or the put may fail
SetTTL(key, value, keepalive, dbErr) ==
    /\ UNCHANGED initVars
    /\ ~panicked
    /\ UNCHANGED stoRest
    /\ ops < MaxOps
    /\   LET rkey == storageSetTTLKey(key)
             ok   == dbErr = NoErr
             r    == IF root = NilRoot
                     THEN [root |-> root, err |-> IF ok THEN ErrPanic ELSE dbErr]
                     ELSE cachedSetTTL(root, key, value, dbErr)
         IN  /\ panicked' = (r.err = ErrPanic)
             /\ remote' = IF ok THEN etcdPut(remote, rkey, value) ELSE remote
             /\ lease' = IF ok
                         THEN [k \in DOMAIN LeaseAfter(lease, remote, {}) \cup {rkey} |->
                                  IF k = rkey THEN keepalive ELSE lease[k]]
                         ELSE lease
             /\ LET ces == IF ok THEN Watched(<<PutEvent(remote, rkey, value)>>,
                                         getStoragePrefix)
                      ELSE <<>>
                    w == received(stoAt, watchQ, ces)
                IN  watchQ' = w.q /\ stoAt' = w.at /\ watchLog' = committed(watchLog, ces)
             /\ root' = r.root
             /\ last' = Call("SetTTL", key, value, dbErr, r.err, EmptyBag)
    /\ ops' = ops + 1

\* cachedStorage.Delete(ctx, key); remove on a nil root panics
Delete(key, dbErr) ==
    /\ UNCHANGED initVars
    /\ ~panicked
    /\ UNCHANGED stoRest
    /\ ops < MaxOps
    /\   LET rkey == storageDeleteKey(key)
             ok   == dbErr = NoErr
             r    == IF root = NilRoot
                     THEN [root |-> root, err |-> IF ok THEN ErrPanic ELSE dbErr]
                     ELSE cachedDelete(root, key, dbErr)
         IN  /\ panicked' = (r.err = ErrPanic)
             /\ remote' = IF ok THEN etcdDelete(remote, rkey) ELSE remote
             /\ lease' = IF ok THEN LeaseAfter(lease, remote', {}) ELSE lease
             /\ LET ces == IF ok THEN Watched(DeleteEvents(etcdDeleted(remote, rkey)),
                                         getStoragePrefix)
                      ELSE <<>>
                    w == received(stoAt, watchQ, ces)
                IN  watchQ' = w.q /\ stoAt' = w.at /\ watchLog' = committed(watchLog, ces)
             /\ root' = r.root
             /\ last' = Call("Delete", key, NoValue, dbErr, r.err, EmptyBag)
    /\ ops' = ops + 1

\* cachedStorage.Get(ctx, key...); dfs returns at once on a nil root, the
\* descent to a key panics on it
GetCall(k) ==
    /\ UNCHANGED initVars
    /\ UNCHANGED watchLog
    /\ ~panicked
    /\ UNCHANGED stoRest
    /\ ops < MaxOps
    /\ LET r == IF root = NilRoot
                THEN [vs |-> EmptyBag, err |-> IF k = <<>> THEN NoErr ELSE ErrPanic,
                      root |-> root]
                ELSE Get(root, k)
       IN  /\ panicked' = (r.err = ErrPanic)
           /\ last' = Call("Get", k, NoValue, NoErr, r.err, r.vs)
           /\ root' = r.root
    /\ ops' = ops + 1
    /\ UNCHANGED <<remote, lease, watchQ, stoAt>>

\* cachedStorage.buildCache(ctx), called again on a built cache
Rebuild(dbErr) ==
    /\ UNCHANGED initVars
    /\ UNCHANGED watchLog
    /\ ~panicked
    /\ UNCHANGED <<stoRest, panicked>>
    /\ ops < MaxOps
    /\   /\ root' = buildCache(root, remote, dbErr)
         /\ last' = Call("buildCache", <<>>, NoValue, dbErr, NoErr, EmptyBag)
    /\ ops' = ops + 1
    /\ UNCHANGED <<remote, lease, watchQ, stoAt>>

\* ------------------------------------------------------------ Get, step by step
\* the nodes whose mu the Get in progress holds: those of the dfs calls that
\* have locked (node.mu.Lock()) and not returned (defer node.mu.Unlock())
Locked == {walk.stack[i].node : i \in DOMAIN walk.stack}

\* dfs(node) up to its Range: the lock, the copy of the node's values
dfsEnter(w, tree, node) ==
    [w EXCEPT !.stack = Append(@, [node |-> node, todo |-> Children(tree, node)]),
              !.vs = @ (+) SeqToBag(tree[node])]

\* dfs(node) returning: the deferred node.mu.Unlock()
dfsLeave(w) == [w EXCEPT !.stack = SubSeq(@, 1, Len(@) - 1)]

\* Get(ctx, k) of a key that has a node: the descent, and dfs entering it
DfsStart(k) ==
    /\ UNCHANGED initVars
    /\ UNCHANGED watchLog
    /\ ~panicked
    /\ ops < MaxOps
    /\ ~walk.on
    /\ root # NilRoot
    /\ LET pos == IF k = <<>> THEN <<>> ELSE Split(k, Separator)
       IN  /\ pos \in DOMAIN root
           /\ walk' = dfsEnter([on |-> TRUE, k |-> k, stack |-> <<>>, vs |-> EmptyBag],
                               root, pos)
    /\ ops' = ops + 1
    /\ UNCHANGED <<name, regVars, ctxDone, stoEvs, stoCalls, getVars, root, watchQ, stoAt,
                   remote, lease, last>>

\* node.next.Range calls dfs on a child not yet visited
DfsDescend ==
    /\ UNCHANGED initVars
    /\ UNCHANGED watchLog
    /\ ~panicked
    /\ walk.on
    /\ walk.stack # <<>>
    /\ \E child \in walk.stack[Len(walk.stack)].todo :
          walk' = dfsEnter([walk EXCEPT !.stack[Len(walk.stack)].todo = @ \ {child}],
                           root, child)
    /\ UNCHANGED <<name, regVars, ctxDone, stoEvs, stoCalls, getVars, root, watchQ, stoAt,
                   remote, lease, last, ops>>

\* Range is over: the innermost dfs returns
DfsReturn ==
    /\ UNCHANGED initVars
    /\ UNCHANGED watchLog
    /\ ~panicked
    /\ walk.on
    /\ walk.stack # <<>>
    /\ walk.stack[Len(walk.stack)].todo = {}
    /\ walk' = dfsLeave(walk)
    /\ UNCHANGED <<name, regVars, ctxDone, stoEvs, stoCalls, getVars, root, watchQ, stoAt,
                   remote, lease, last, ops>>

\* the outermost dfs has returned: Get returns what was gathered
DfsEnd ==
    /\ UNCHANGED initVars
    /\ UNCHANGED watchLog
    /\ ~panicked
    /\ walk.on
    /\ walk.stack = <<>>
    /\ last' = Call("Get", walk.k, NoValue, NoErr, NoErr, walk.vs)
    /\ walk' = NoWalk
    /\ UNCHANGED <<name, regVars, ctxDone, stoEvs, stoCalls, getVars, root, watchQ, stoAt,
                   remote, lease, ops>>

\* ------------------------------------------------------------ GetStorage
\* GetStorage(name) of goroutine c: v, ok := s.m.Load(name); a cache found is
\* the one returned
GsLoad(c) ==
    /\ UNCHANGED initVars
    /\ UNCHANGED watchLog
    /\ ~panicked
    /\ getAt[c].pc = "idle"
    /\ getAt' = [getAt EXCEPT ![c] = IF stoM = NoCache
                                     THEN [@ EXCEPT !.pc = "missed"]
                                     ELSE Returned(stoM)]
    /\ UNCHANGED <<name, regVars, ctxDone, stoEvs, stoCalls, walk, stoM, root, watchQ, stoAt,
                   remote, lease, last, ops>>

\* cs = newCachedStorage(...): the scan of the namespace and the tree of it
GsBuild(c, dbErr) ==
    /\ UNCHANGED initVars
    /\ UNCHANGED watchLog
    /\ ~panicked
    /\ getAt[c].pc = "missed"
    /\ getAt' = [getAt EXCEPT ![c] = [pc |-> "built", cs |-> c,
                                      tree |-> buildCache(NilRoot, remote, dbErr)]]
    /\ UNCHANGED <<name, regVars, ctxDone, stoEvs, stoCalls, walk, stoM, root, watchQ, stoAt,
                   remote, lease, last, ops>>

\* s.m.Store(name, cs) and the return of cs: the cache s.m held before, if
\* any, stays with the goroutines it was returned to
GsStore(c) ==
    /\ UNCHANGED initVars
    /\ UNCHANGED watchLog
    /\ ~panicked
    /\ getAt[c].pc = "built"
    /\ stoM' = c
    /\ root' = getAt[c].tree
    /\ getAt' = [d \in Callers |->
                    IF d = c THEN Returned(c)
                    ELSE IF getAt[d].cs = stoM /\ stoM # NoCache
                         THEN [getAt[d] EXCEPT !.tree = root]
                         ELSE getAt[d]]
    /\ UNCHANGED <<name, regVars, ctxDone, stoEvs, stoCalls, walk, watchQ, stoAt,
                   remote, lease, last, ops>>

\* ------------------------------------------------------------ the watch task
\* the task of storages.watchAndUpdateCaches creates its next watch
StoWatch ==
    /\ UNCHANGED initVars
    /\ ~panicked
    /\ ~ctxDone
    /\ stoAt = "watch"
    /\ stoAt' = "select"
    /\ UNCHANGED watchLog
    /\ UNCHANGED <<stoRest, panicked, root, watchQ, remote, lease, last, ops>>

\* etcd.watch hands the next event of the response to the handler of
\* watchAndUpdateCaches: the cache registered under the event's name handles
\* it, then the external handler stored under that name is called
ApplyEvent ==
    /\ UNCHANGED initVars
    /\ ~panicked
    /\ UNCHANGED <<name, regQuiet, ctxDone, stoEvs, getVars, walk>>
    /\ stoAt = "handle"
    /\ LET e == Head(watchQ)
       IN  /\ panicked' = (stoM # NoCache /\ root = NilRoot /\ eventName(e) = name)
           /\ root' = IF stoM = NoCache \/ root = NilRoot THEN root
                      ELSE watchHandler(root, e)
           /\ stoCalls' = IF eventName(e) \in stoEvs /\ ~panicked'
                          THEN Append(stoCalls,
                                      [to |-> eventName(e), Type |-> e.Type,
                                       Key |-> eventKey(e), Value |-> e.Value,
                                       tree |-> root'])
                          ELSE stoCalls
    /\ watchQ' = Tail(watchQ)
    /\ watchLog' = delivered(watchLog, Head(watchQ))
    /\ stoAt' = afterEvent(watchQ)
    /\ UNCHANGED <<remote, lease, last, ops>>

\* storages.SetEventHandler(n, handler)
SetEventHandler(n) ==
    /\ UNCHANGED initVars
    /\ UNCHANGED watchLog
    /\ ~panicked
    /\ ops < MaxOps
    /\ stoEvs' = stoEvs \cup {n}
    /\ ops' = ops + 1
    /\ UNCHANGED <<name, regVars, ctxDone, stoCalls, root, watchQ, stoAt, remote, lease, last,
                   getVars, walk>>

\* the storage watch task returns: the context is done
StoStop ==
    /\ UNCHANGED initVars
    /\ UNCHANGED watchLog
    /\ ~panicked
    /\ ctxDone
    /\ stoAt # selectDone(stoAt)
    /\ stoAt' = selectDone(stoAt)
    /\ UNCHANGED <<stoRest, panicked, root, watchQ, remote, lease, last, ops>>

\* the owner of the context given to Init cancels it
Cancel ==
    /\ UNCHANGED initVars
    /\ ~ctxDone
    /\ ctxDone' = TRUE
    /\ UNCHANGED <<stoVars, regVars, remote, lease, last, ops>>

\* ------------------------------------------------------------ the rest of the world
\* another client puts a key of the namespace
OtherPut(key, value) ==
    /\ UNCHANGED initVars
    /\ UNCHANGED <<stoRest, panicked>>
    /\ ops < MaxOps
    /\ remote' = etcdPut(remote, key, value)
    /\ lease' = LeaseAfter(lease, remote, {key})
    /\ LET ces == Watched(<<PutEvent(remote, key, value)>>, getStoragePrefix)
           w == received(stoAt, watchQ, ces)
       IN  watchQ' = w.q /\ stoAt' = w.at /\ watchLog' = committed(watchLog, ces)
    /\ ops' = ops + 1
    /\ UNCHANGED <<root, last>>

\* another client deletes a key of the namespace
OtherDelete(key) ==
    /\ UNCHANGED initVars
    /\ UNCHANGED <<stoRest, panicked>>
    /\ ops < MaxOps
    /\ key \in DOMAIN remote
    /\ remote' = [k \in DOMAIN remote \ {key} |-> remote[k]]
    /\ lease' = LeaseAfter(lease, remote', {})
    /\ LET ces == Watched(DeleteEvents({key}), getStoragePrefix)
           w == received(stoAt, watchQ, ces)
       IN  watchQ' = w.q /\ stoAt' = w.at /\ watchLog' = committed(watchLog, ces)
    /\ ops' = ops + 1
    /\ UNCHANGED <<root, last>>

\* etcd expires a lease nobody renews and deletes its key
Expire(key) ==
    /\ UNCHANGED initVars
    /\ UNCHANGED <<stoRest, panicked>>
    /\ key \in DOMAIN lease
    /\ ~lease[key]
    /\ remote' = [k \in DOMAIN remote \ {key} |-> remote[k]]
    /\ lease' = LeaseAfter(lease, remote', {})
    /\ LET ces == Watched(DeleteEvents({key}), getStoragePrefix)
           w == received(stoAt, watchQ, ces)
       IN  watchQ' = w.q /\ stoAt' = w.at /\ watchLog' = committed(watchLog, ces)
    /\ UNCHANGED <<root, last, ops>>

\* ------------------------------------------------------------ instances and services
Instance(service, id, meta) ==
    [Id |-> id, Host |-> "h", ServiceName |-> service, Meta |-> meta]

\* Instance.Identity(): "<service>_<id>@<host>"
Identity(i) == <<i.ServiceName, "_", i.Id, "@", i.Host>>

\* Instance.registryIdentity(prefix)
registryIdentity(i, pfx) == pfx \o Identity(i)

\* Instance.String(): the JSON text of the instance, handed to Set as a string
InstanceString(i) == [type |-> "string", text |-> [fmt |-> "json", obj |-> i]]

\* Var.Struct(&instance): the instance a JSON value decodes to
Struct(var) ==
    LET text == VarString(var)
    IN  IF text.fmt = "json"
        THEN [err |-> NoErr, instance |-> text.obj]
        ELSE [err |-> "struct: cannot decode", instance |-> NoInstance]

\* Instance.clone(): a copy, field by field
clone(i) ==
    [Id |-> i.Id, Host |-> i.Host, ServiceName |-> i.ServiceName, Meta |-> i.Meta]

HasIdentity(instances, id) == \E i \in 1..Len(instances) : Identity(instances[i]) = id

FirstWithIdentity(instances, id) ==
    CHOOSE i \in 1..Len(instances) :
        Identity(instances[i]) = id /\ \A h \in 1..(i - 1) : Identity(instances[h]) # id

\* Service.append
serviceAppend(instances, instance) == Append(instances, instance)

\* Service.upsert: the entry of the same identity replaced, else appended
serviceUpsert(instances, instance) ==
    IF HasIdentity(instances, Identity(instance))
    THEN [instances EXCEPT ![FirstWithIdentity(instances, Identity(instance))] = instance]
    ELSE Append(instances, instance)

\* Service.remove(id): the list without the first instance of that identity
serviceRemove(instances, id) ==
    IF HasIdentity(instances, id)
    THEN LET i == FirstWithIdentity(instances, id)
         IN  [instances |-> SubSeq(instances, 1, i - 1) \o SubSeq(instances, i + 1, Len(instances)),
              removed   |-> instances[i]]
    ELSE [instances |-> instances, removed |-> NoInstance]

\* ------------------------------------------------------------ the registry
GetService(services, serviceName) ==
    IF serviceName \in DOMAIN services
    THEN [service |-> services[serviceName], err |-> NoErr]
    ELSE [service |-> <<>>, err |-> ErrServiceNotFound]

\* the cache after getOrCreateService(serviceName)
getOrCreateService(services, serviceName) ==
    IF GetService(services, serviceName).err = ErrServiceNotFound
    THEN [n \in DOMAIN services \cup {serviceName} |->
             IF n = serviceName THEN <<>> ELSE services[n]]
    ELSE services

\* the loop of registry.buildCache over the scanned kvs: a value that does
\* not decode ends it
RECURSIVE registryBuildLoop(_, _)
registryBuildLoop(services, kvs) ==
    IF Len(kvs) = 0 THEN services
    ELSE LET d == Struct(kvs[1].Value)
             n == d.instance.ServiceName
         IN  IF d.err # NoErr THEN services
             ELSE IF n \notin DOMAIN services
             THEN registryBuildLoop(
                      [m \in DOMAIN services \cup {n} |->
                          IF m = n THEN serviceAppend(<<>>, d.instance) ELSE services[m]],
                      Tail(kvs))
             ELSE registryBuildLoop(
                      [services EXCEPT ![n] = serviceUpsert(services[n], d.instance)],
                      Tail(kvs))

\* registry.buildCache: r.cli.Get of the registry prefix is a prefix scan
registryBuildCache(services, store, err) ==
    IF err # NoErr THEN services
    ELSE registryBuildLoop(services, GetPrefix(store, getRegistryPrefix))

\* register without the scan of the service's instances for the identity
registerUnchecked(cur, services, store, ins, dbErr, scanErr) ==
    IF cur # NoInstance
    THEN [cur |-> cur, cache |-> services, store |-> store, put |-> FALSE,
          dbErr |-> NoErr, err |-> ErrAlreadyRegistered]
    ELSE LET c1  == getOrCreateService(services, ins.ServiceName)
             key == registryIdentity(ins, getRegistryPrefix)
             st  == etcdPut(store, key, InstanceString(ins))
         IN  IF dbErr # NoErr
             THEN [cur |-> ins, cache |-> c1, store |-> store, put |-> FALSE,
                   dbErr |-> dbErr, err |-> dbErr]
             ELSE [cur |-> ins, cache |-> registryBuildCache(c1, st, scanErr),
                   store |-> st, put |-> TRUE, dbErr |-> NoErr, err |-> NoErr]

\* registry.register(ctx, ins): what it leaves of currentInstance, the cache
\* and etcd, and the error it returns; dbErr is what r.cli.Set would return,
\* scanErr what the scan of the rebuild would
register(cur, services, store, ins, dbErr, scanErr) ==
    IF cur # NoInstance
    THEN [cur |-> cur, cache |-> services, store |-> store, put |-> FALSE,
          dbErr |-> NoErr, err |-> ErrAlreadyRegistered]
    ELSE LET c1  == getOrCreateService(services, ins.ServiceName)
             key == registryIdentity(ins, getRegistryPrefix)
             st  == etcdPut(store, key, InstanceString(ins))
         IN  IF HasIdentity(c1[ins.ServiceName], Identity(ins))
             THEN [cur |-> ins, cache |-> c1, store |-> store, put |-> FALSE,
                   dbErr |-> NoErr, err |-> ErrAlreadyRegistered]
             ELSE IF dbErr # NoErr
             THEN [cur |-> ins, cache |-> c1, store |-> store, put |-> FALSE,
                   dbErr |-> dbErr, err |-> dbErr]
             ELSE [cur |-> ins, cache |-> registryBuildCache(c1, st, scanErr),
                   store |-> st, put |-> TRUE, dbErr |-> NoErr, err |-> NoErr]

\* the delete branch of the watch handler: cache.Range visits the services
\* in an order of its own, up to the one that held the instance; visited is
\* the set of services it got to.  An empty service it visits is deleted.
registryDelete(services, id, visited) ==
    LET after(n) == IF n \in visited
                    THEN serviceRemove(services[n], id).instances
                    ELSE services[n]
        kept     == {n \in DOMAIN services : ~(n \in visited /\ Len(after(n)) = 0)}
    IN  [n \in kept |-> after(n)]

\* the sets of services a Range may visit before it stops
Visits(services, id) ==
    LET holders == {n \in DOMAIN services : HasIdentity(services[n], id)}
    IN  IF holders = {} THEN {DOMAIN services}
        ELSE {v \in SUBSET DOMAIN services : Cardinality(v \cap holders) = 1}

\* the create/update branch of the watch handler, the value decoded
registryUpsert(services, instance) ==
    LET c1 == getOrCreateService(services, instance.ServiceName)
    IN  [c1 EXCEPT ![instance.ServiceName] = serviceUpsert(c1[instance.ServiceName], instance)]

\* the identities of the instances a cache holds
CachedIdentities(services) ==
    UNION {{Identity(services[n][i]) : i \in 1..Len(services[n])} : n \in DOMAIN services}

\* history of a rebuild: the identities cached when it began or put by a
\* create/update event while it ran, less those a delete event was applied for
Kept(b, e) ==
    IF b.pc \notin {"load", "store", "append", "done"} THEN b
    ELSE IF e.Type = "delete"
    THEN [b EXCEPT !.keep = @ \ {TrimPrefix(e.Key, getRegistryPrefix)}]
    ELSE IF Struct(e.Value).err = NoErr /\ b.pc # "done"
    THEN [b EXCEPT !.keep = @ \cup {Identity(Struct(e.Value).instance)}]
    ELSE b

\* the rebuild as the watch handler leaves it: the Service the rebuild has
\* stored is no longer the cache's once the delete branch has deleted it
afterHandler(b, e, after) ==
    LET k == Kept(b, e)
    IN  IF b.pc = "append"
        THEN [k EXCEPT !.mine = @ /\ Struct(b.kvs[1].Value).instance.ServiceName
                                       \in DOMAIN after]
        ELSE k

\* ------------------------------------------------------------ registry inputs
\* the instances this process registers
OwnInstances == {Instance("s", "1", "a"), Instance("u", "1", "a")}

\* the instances other processes register: the identity of an own instance
\* with other metadata, and another instance of the same service
OtherInstances == {Instance("s", "1", "b"), Instance("s", "2", "a")}

\* newRegistry: the cache as buildCache leaves it, etcd holding nothing or
\* the registration of another process; at is where the watch task, started
\* as newRegistry returns, has got to
RegistryStart(at) ==
    /\ remote \in {<<>>} \cup
           {[k \in {registryIdentity(i, getRegistryPrefix)} |-> InstanceString(i).text] :
               i \in OtherInstances}
    /\ lease = [k \in DOMAIN remote |-> TRUE]
    /\ cache = registryBuildCache(<<>>, remote, NoErr)
    /\ currentInstance = NoInstance
    /\ regQ = <<>>
    /\ regAt = at
    /\ evs = <<>>
    /\ pending = {}
    /\ invoked = <<>>
    /\ owed = {}
    /\ panicked = FALSE
    /\ owned = NoInstance
    /\ name = <<"t">>
    /\ root = EmptyRoot
    /\ stoM = 1
    /\ getAt = [c \in Callers |-> IF c = 1 THEN Returned(1) ELSE NotCalled]
    /\ build = NoBuild
    /\ walk = NoWalk
    /\ rehAt = [h \in Handlers |-> NotRegistering]
    /\ onceLoad = TRUE
    /\ Registry = SetHandle
    /\ Storages = SetHandle
    /\ watchQ = <<>>
    /\ stoAt = "watch"
    /\ watchLog = NoLog(FALSE)
    /\ stoEvs = {}
    /\ stoCalls = <<>>
    /\ ctxDone = FALSE
    /\ last = [at |-> 0, op |-> "none", key |-> <<>>, value |-> NoValue,
               dbErr |-> NoErr, err |-> NoErr, vs |-> EmptyBag]
    /\ ops = 0

\* newRegistry has returned
RegistryInit == RegistryStart("watch")

\* the watch task has created its first watch before anything else happens
WatchingInit == RegistryStart("select")

\* ------------------------------------------------------------ registry calls
\* registry.register(ctx, ins)
Register(ins, dbErr, scanErr) ==
    /\ UNCHANGED initVars
    /\ ~panicked
    /\ ops < MaxOps
    /\ LET r   == register(currentInstance, cache, remote, ins, dbErr, scanErr)
           key == registryIdentity(ins, getRegistryPrefix)
       IN  /\ currentInstance' = r.cur
           /\ cache' = r.cache
           /\ remote' = r.store
           /\ lease' = IF r.put
                       THEN [k \in DOMAIN lease \cup {key} |->
                                IF k = key THEN TRUE ELSE lease[k]]
                       ELSE lease
           /\ LET w == received(regAt, regQ,
                        IF r.put THEN Watched(<<PutEvent(remote, key, InstanceString(ins))>>,
                                         getRegistryPrefix)
                        ELSE <<>>)
               IN  regQ' = w.q /\ regAt' = w.at
           /\ last' = Call("register", key, ins, r.dbErr, r.err, EmptyBag)
           /\ owned' = IF r.put THEN ins ELSE owned
    /\ ops' = ops + 1
    /\ UNCHANGED <<regRest, panicked, owed>>

\* a Deregister that sets currentInstance to nil once the remote delete has
\* succeeded
DeregisterClearing(dbErr) ==
    /\ UNCHANGED initVars
    /\ ~panicked
    /\ ops < MaxOps
    /\ IF currentInstance = NoInstance
       THEN /\ last' = Call("Deregister", <<>>, NoInstance, NoErr, NoErr, EmptyBag)
            /\ UNCHANGED <<remote, lease, regQ, regAt, currentInstance>>
       ELSE LET key == registryIdentity(currentInstance, getRegistryPrefix)
                ok  == dbErr = NoErr
            IN  /\ remote' = IF ok THEN etcdDelete(remote, key) ELSE remote
                /\ lease' = IF ok THEN LeaseAfter(lease, remote', {}) ELSE lease
                /\ LET w == received(regAt, regQ,
                        IF ok THEN Watched(DeleteEvents(etcdDeleted(remote, key)),
                                         getRegistryPrefix)
                        ELSE <<>>)
                    IN  regQ' = w.q /\ regAt' = w.at
                /\ last' = Call("Deregister", key, currentInstance, dbErr, dbErr, EmptyBag)
                /\ currentInstance' = IF ok THEN NoInstance ELSE currentInstance
    /\ ops' = ops + 1
    /\ UNCHANGED <<regRest, cache, panicked, owned, owed>>

\* registry.Deregister(ctx); the call's record holds the key the remote
\* delete was issued for, <<>> when none was issued
Deregister(dbErr) ==
    /\ UNCHANGED initVars
    /\ ~panicked
    /\ ops < MaxOps
    /\ IF currentInstance = NoInstance
       THEN /\ last' = Call("Deregister", <<>>, NoInstance, NoErr, NoErr, EmptyBag)
            /\ UNCHANGED <<remote, lease, regQ, regAt>>
       ELSE LET key == registryIdentity(currentInstance, getRegistryPrefix)
                ok  == dbErr = NoErr
            IN  /\ remote' = IF ok THEN etcdDelete(remote, key) ELSE remote
                /\ lease' = IF ok THEN LeaseAfter(lease, remote', {}) ELSE lease
                /\ LET w == received(regAt, regQ,
                        IF ok THEN Watched(DeleteEvents(etcdDeleted(remote, key)),
                                         getRegistryPrefix)
                        ELSE <<>>)
                    IN  regQ' = w.q /\ regAt' = w.at
                /\ last' = Call("Deregister", key, currentInstance, dbErr, dbErr, EmptyBag)
    /\ ops' = ops + 1
    /\ UNCHANGED <<regRest, currentInstance, cache, panicked, owned, owed>>

\* ------------------------------------------------------------ register, step by step
\* registry.register(ctx, ins) up to the return of a successful r.cli.Set
RegisterWrite(ins) ==
    /\ UNCHANGED initVars
    /\ ~panicked
    /\ ops < MaxOps
    /\ build.pc = "idle"
    /\ LET r   == register(currentInstance, cache, remote, ins, NoErr, NoErr)
           key == registryIdentity(ins, getRegistryPrefix)
           w   == received(regAt, regQ,
                           Watched(<<PutEvent(remote, key, InstanceString(ins))>>,
                                   getRegistryPrefix))
       IN  /\ r.put
           /\ currentInstance' = ins
           /\ cache' = getOrCreateService(cache, ins.ServiceName)
           /\ remote' = r.store
           /\ lease' = [k \in DOMAIN lease \cup {key} |-> IF k = key THEN TRUE ELSE lease[k]]
           /\ regQ' = w.q
           /\ regAt' = w.at
           /\ owned' = ins
    /\ build' = [NoBuild EXCEPT !.pc = "scan"]
    /\ ops' = ops + 1
    /\ UNCHANGED <<stoVars, ctxDone, rehAt, evs, pending, invoked, panicked, owed, last>>

\* registry.buildCache: the scan of the registry prefix
BuildScan ==
    /\ UNCHANGED initVars
    /\ ~panicked
    /\ build.pc = "scan"
    /\ build' = [pc |-> "load", kvs |-> GetPrefix(remote, getRegistryPrefix),
                 keep |-> CachedIdentities(cache), mine |-> FALSE]
    /\ UNCHANGED <<stoVars, ctxDone, rehAt, evs, pending, invoked, panicked, owed, last, ops,
                   currentInstance, cache, remote, lease, regQ, regAt, owned>>

\* the next kv of the scan: Struct and r.cache.Load(serviceName); a service
\* found takes the instance by upsert
BuildLoad ==
    /\ UNCHANGED initVars
    /\ ~panicked
    /\ build.pc = "load"
    /\ build.kvs # <<>>
    /\ LET d == Struct(build.kvs[1].Value)
           n == d.instance.ServiceName
       IN  IF d.err # NoErr
           THEN build' = [build EXCEPT !.pc = "done"] /\ UNCHANGED cache
           ELSE IF n \in DOMAIN cache
           THEN /\ cache' = [cache EXCEPT ![n] = serviceUpsert(cache[n], d.instance)]
                /\ build' = [build EXCEPT !.kvs = Tail(@)]
           ELSE build' = [build EXCEPT !.pc = "store"] /\ UNCHANGED cache
    /\ UNCHANGED <<stoVars, ctxDone, rehAt, evs, pending, invoked, panicked, owed, last, ops,
                   currentInstance, remote, lease, regQ, regAt, owned>>

\* the service was not found: r.cache.Store(serviceName, new(Service))
BuildStore ==
    /\ UNCHANGED initVars
    /\ ~panicked
    /\ build.pc = "store"
    /\ LET n == Struct(build.kvs[1].Value).instance.ServiceName
       IN  cache' = [m \in DOMAIN cache \cup {n} |-> IF m = n THEN <<>> ELSE cache[m]]
    /\ build' = [build EXCEPT !.pc = "append", !.mine = TRUE]
    /\ UNCHANGED <<stoVars, ctxDone, rehAt, evs, pending, invoked, panicked, owed, last, ops,
                   currentInstance, remote, lease, regQ, regAt, owned>>

\* service.append(instance) on the Service just stored, be it still the
\* cache's or not
BuildAppend ==
    /\ UNCHANGED initVars
    /\ ~panicked
    /\ build.pc = "append"
    /\ LET instance == Struct(build.kvs[1].Value).instance
           n == instance.ServiceName
       IN  cache' = IF build.mine
                    THEN [cache EXCEPT ![n] = serviceAppend(@, instance)]
                    ELSE cache
    /\ build' = [build EXCEPT !.pc = "load", !.kvs = Tail(@), !.mine = FALSE]
    /\ UNCHANGED <<stoVars, ctxDone, rehAt, evs, pending, invoked, panicked, owed, last, ops,
                   currentInstance, remote, lease, regQ, regAt, owned>>

\* the loop is over: buildCache and register return
BuildReturn ==
    /\ UNCHANGED initVars
    /\ ~panicked
    /\ build.pc = "load"
    /\ build.kvs = <<>>
    /\ build' = [build EXCEPT !.pc = "done"]
    /\ last' = Call("register", registryIdentity(currentInstance, getRegistryPrefix),
                    currentInstance, NoErr, NoErr, EmptyBag)
    /\ UNCHANGED <<stoVars, ctxDone, rehAt, evs, pending, invoked, panicked, owed, ops,
                   currentInstance, cache, remote, lease, regQ, regAt, owned>>

\* ------------------------------------------------------------ the registry watch task
\* registry.RegisterEventHandler(handler): the handler goes to the end of the
\* chain
RegisterEventHandler(h) ==
    /\ UNCHANGED initVars
    /\ ~panicked
    /\ ops < MaxOps
    /\ \A i \in DOMAIN evs : evs[i] # h
    /\ evs' = Append(evs, h)
    /\ ops' = ops + 1
    /\ UNCHANGED <<stoVars, ctxDone, rehAt, remote, lease, last, currentInstance, cache, regQ,
                   regAt, panicked, owned, pending, invoked, owed, build>>

\* RegisterEventHandler(h), step by step, in a goroutine of its own: the
\* reads that find the end of the chain (r.evs when it is nil, else the
\* wrapper whose next is nil)
RehRead(h) ==
    /\ UNCHANGED initVars
    /\ ~panicked
    /\ ops < MaxOps
    /\ rehAt[h].pc = "idle"
    /\ rehAt' = [rehAt EXCEPT ![h] = [pc |-> "read",
                                      tail |-> IF evs = <<>> THEN NoWrapper
                                               ELSE evs[Len(evs)]]]
    /\ ops' = ops + 1
    /\ UNCHANGED <<stoVars, ctxDone, remote, lease, last, currentInstance, cache, regQ,
                   regAt, panicked, owned, evs, pending, invoked, owed, build>>

\* the chain after the write of the call that found tail: r.evs = wrapper
\* when it found r.evs nil, else tail.next = wrapper, which unlinks what
\* another call has linked after tail since and changes nothing of the
\* chain when tail is no longer in it
linked(chain, tail, h) ==
    IF tail = NoWrapper THEN <<h>>
    ELSE IF \E i \in DOMAIN chain : chain[i] = tail
    THEN SubSeq(chain, 1, CHOOSE i \in DOMAIN chain : chain[i] = tail) \o <<h>>
    ELSE chain

\* the write, and the return
RehWrite(h) ==
    /\ UNCHANGED initVars
    /\ ~panicked
    /\ rehAt[h].pc = "read"
    /\ evs' = linked(evs, rehAt[h].tail, h)
    /\ rehAt' = [rehAt EXCEPT ![h] = [pc |-> "done", tail |-> NoWrapper]]
    /\ UNCHANGED <<stoVars, ctxDone, remote, lease, last, ops, currentInstance, cache, regQ,
                   regAt, panicked, owned, pending, invoked, owed, build>>

\* the task of registry.watchAndUpdateCache creates its next watch
RegWatch ==
    /\ UNCHANGED initVars
    /\ ~panicked
    /\ ~ctxDone
    /\ regAt = "watch"
    /\ regAt' = "select"
    /\ UNCHANGED <<regRest, remote, lease, last, ops, currentInstance, cache, regQ,
                   panicked, owned, owed>>

\* the number of goroutines pushEvent has started for handler h
Started(h) ==
    Cardinality({p \in pending : p.h = h}) + Len(SelectSeq(invoked, LAMBDA c : c.h = h))

\* registry.pushEvent(instance, e): one goroutine for each handler of the
\* chain, all given the clone of the instance; n counts the goroutines of a
\* handler in the order pushEvent started them
pushEvent(instance, e) ==
    {[h |-> evs[i], e |-> e, ins |-> clone(instance), n |-> Started(evs[i]) + 1] :
        i \in DOMAIN evs}

\* the instance the delete branch is left with: the one the visited holder
\* gave up, nil when no service held the identity
removedInstance(services, id, visited) ==
    LET holders == {n \in visited : HasIdentity(services[n], id)}
    IN  IF holders = {} THEN NoInstance
        ELSE serviceRemove(services[CHOOSE n \in holders : TRUE], id).removed

\* the handler of registry.watchAndUpdateCache on the next event of the
\* response.  A delete that finds no instance hands pushEvent a nil instance,
\* whose clone() dereferences it: the process panics.  A value that does not
\* decode makes the handler return before pushEvent.
ApplyRegEvent ==
    /\ UNCHANGED initVars
    /\ ~panicked
    /\ regAt = "handle"
    /\ LET e == Head(regQ)
       IN  IF e.Type = "delete"
           THEN LET id == TrimPrefix(e.Key, getRegistryPrefix)
                IN  \E visited \in Visits(cache, id) :
                       LET instance == removedInstance(cache, id, visited)
                       IN  /\ cache' = registryDelete(cache, id, visited)
                           /\ panicked' = (instance = NoInstance)
                           /\ pending' = IF instance = NoInstance THEN pending
                                          ELSE pending \cup pushEvent(instance, e.Type)
                           /\ UNCHANGED currentInstance
           ELSE LET d == Struct(e.Value)
                IN  IF d.err # NoErr
                    THEN UNCHANGED <<cache, currentInstance, panicked, pending>>
                    ELSE /\ cache' = registryUpsert(cache, d.instance)
                         /\ currentInstance' =
                                IF currentInstance # NoInstance
                                   /\ d.instance.Id = currentInstance.Id
                                THEN clone(d.instance)
                                ELSE currentInstance
                         /\ pending' = pending \cup pushEvent(d.instance, e.Type)
                         /\ UNCHANGED panicked
    /\ regQ' = Tail(regQ)
    /\ regAt' = afterEvent(regQ)
    /\ build' = afterHandler(build, Head(regQ), cache')
    /\ UNCHANGED <<stoVars, ctxDone, rehAt, remote, lease, last, ops, owned, evs, invoked, owed>>

\* a goroutine pushEvent started gets to run: the handler is invoked
RunHandler(p) ==
    /\ UNCHANGED initVars
    /\ ~panicked
    /\ p \in pending
    /\ pending' = pending \ {p}
    /\ invoked' = Append(invoked, p)
    /\ UNCHANGED <<stoVars, ctxDone, rehAt, remote, lease, last, ops, currentInstance, cache,
                   regQ, regAt, panicked, owned, evs, owed, build>>

\* the registry watch task returns: the context is done
RegStop ==
    /\ UNCHANGED initVars
    /\ ~panicked
    /\ ctxDone
    /\ regAt # selectDone(regAt)
    /\ regAt' = selectDone(regAt)
    /\ UNCHANGED <<regRest, remote, lease, last, ops, currentInstance, cache, regQ,
                   panicked, owned, owed>>

\* ------------------------------------------------------------ other processes
\* the change of a registration another process commits, for each handler
\* in the chain at that moment
Owed(e, ins) == {[h |-> evs[i], e |-> e, ins |-> ins] : i \in DOMAIN evs}

\* another process registers (or re-registers) an instance
OtherRegister(ins) ==
    /\ UNCHANGED initVars
    /\ ops < MaxOps
    /\ LET key == registryIdentity(ins, getRegistryPrefix)
           e   == PutEvent(remote, key, InstanceString(ins))
           w   == received(regAt, regQ, Watched(<<e>>, getRegistryPrefix))
       IN  /\ remote' = etcdPut(remote, key, InstanceString(ins))
           /\ lease' = [k \in DOMAIN lease \cup {key} |-> IF k = key THEN TRUE ELSE lease[k]]
           /\ regQ' = w.q
           /\ regAt' = w.at
           /\ owed' = owed \cup Owed(e.Type, ins)
    /\ ops' = ops + 1
    /\ UNCHANGED <<regRest, last, currentInstance, cache, panicked, owned>>

\* the registration of another process goes: it deregistered, or it died
\* and its lease ran out
OtherGone(key) ==
    /\ UNCHANGED initVars
    /\ ops < MaxOps
    /\ key \in DOMAIN remote
    /\ remote' = [k \in DOMAIN remote \ {key} |-> remote[k]]
    /\ lease' = LeaseAfter(lease, remote', {})
    /\ LET w == received(regAt, regQ, Watched(DeleteEvents({key}), getRegistryPrefix))
       IN  regQ' = w.q /\ regAt' = w.at
    /\ owed' = owed \cup Owed("delete", remote[key].obj)
    /\ ops' = ops + 1
    /\ UNCHANGED <<regRest, last, currentInstance, cache, panicked, owned>>

\* a value under the registry prefix that is no instance: Struct fails on it
JunkString == [type |-> "string", text |-> [fmt |-> "text", obj |-> NoInstance]]

\* the keys other clients write such values under
JunkKeys == {getRegistryPrefix \o <<"j">>, getRegistryPrefix \o <<"k">>}

\* another client puts a value that is no instance under the registry prefix
OtherJunk(key) ==
    /\ UNCHANGED initVars
    /\ ops < MaxOps
    /\ LET e == PutEvent(remote, key, JunkString)
           w == received(regAt, regQ, Watched(<<e>>, getRegistryPrefix))
       IN  /\ remote' = etcdPut(remote, key, JunkString)
           /\ lease' = LeaseAfter(lease, remote, {key})
           /\ regQ' = w.q
           /\ regAt' = w.at
    /\ ops' = ops + 1
    /\ UNCHANGED <<regRest, last, currentInstance, cache, panicked, owned, owed>>

\* and deletes it
OtherJunkGone(key) ==
    /\ UNCHANGED initVars
    /\ ops < MaxOps
    /\ key \in DOMAIN remote
    /\ remote' = [k \in DOMAIN remote \ {key} |-> remote[k]]
    /\ lease' = LeaseAfter(lease, remote', {})
    /\ LET w == received(regAt, regQ, Watched(DeleteEvents({key}), getRegistryPrefix))
       IN  regQ' = w.q /\ regAt' = w.at
    /\ ops' = ops + 1
    /\ UNCHANGED <<regRest, last, currentInstance, cache, panicked, owned, owed>>

\* ------------------------------------------------------------ Init
\* the process before its first call of Init: no registry, no storages, no
\* watch task ("none"), etcd holding nothing or the registration of another
\* process
ProcessStart ==
    /\ remote \in {<<>>} \cup
           {[k \in {registryIdentity(i, getRegistryPrefix)} |-> InstanceString(i).text] :
               i \in OtherInstances}
    /\ lease = [k \in DOMAIN remote |-> TRUE]
    /\ onceLoad = FALSE
    /\ Registry = NilHandle
    /\ Storages = NilHandle
    /\ currentInstance = NoInstance
    /\ cache = <<>>
    /\ regQ = <<>>
    /\ regAt = "none"
    /\ evs = <<>>
    /\ pending = {}
    /\ invoked = <<>>
    /\ owed = {}
    /\ panicked = FALSE
    /\ owned = NoInstance
    /\ name = <<"t">>
    /\ root = NilRoot
    /\ stoM = NoCache
    /\ getAt = [c \in Callers |-> NotCalled]
    /\ build = NoBuild
    /\ walk = NoWalk
    /\ rehAt = [h \in Handlers |-> NotRegistering]
    /\ watchQ = <<>>
    /\ stoAt = "none"
    /\ watchLog = NoLog(FALSE)
    /\ stoEvs = {}
    /\ stoCalls = <<>>
    /\ ctxDone = FALSE
    /\ last = [at |-> 0, op |-> "none", key |-> <<>>, value |-> NoValue,
               dbErr |-> NoErr, err |-> NoErr, vs |-> EmptyBag]
    /\ ops = 0

TypeEtcd == "etcd"
ConfigTypes == {TypeEtcd, "consul"}
ErrUnknownType == "unknown registry type"

\* Init(ctx, config, ins...): typ is config.Type, dbErr what newEtcd returns,
\* ins the instance given (NoInstance for none), setErr what the r.cli.Set
\* of register returns, at where the watch task newRegistry has started is
\* when that Set commits.  err is the named result of the call: the function
\* given to onceLoad.Do assigns it, and a call whose Do does not run the
\* function returns it as it was declared, nil.
InitCall(typ, dbErr, ins, setErr, at) ==
    /\ ~panicked
    /\ ops < MaxOps
    /\ ops' = ops + 1
    /\ UNCHANGED <<stoEvs, stoCalls, getVars, walk, watchLog, name, root, watchQ,
                   ctxDone, evs, pending, invoked, owed, build, rehAt, panicked>>
    /\ IF onceLoad
       THEN /\ last' = Call("Init", <<>>, ins, NoErr, NoErr, EmptyBag)
            /\ UNCHANGED <<initVars, currentInstance, cache, remote, lease, regQ,
                           regAt, stoAt, owned>>
       ELSE /\ onceLoad' = TRUE
            /\ LET newErr == IF typ = TypeEtcd THEN dbErr ELSE ErrUnknownType
               IN  IF newErr # NoErr
                   THEN /\ last' = Call("Init", <<>>, ins, NoErr, newErr, EmptyBag)
                        /\ UNCHANGED <<Registry, Storages, currentInstance, cache,
                                       remote, lease, regQ, regAt, stoAt, owned>>
                   ELSE LET c0  == registryBuildCache(<<>>, remote, NoErr)
                            r   == IF ins = NoInstance
                                   THEN [cur |-> currentInstance, cache |-> c0,
                                         store |-> remote, put |-> FALSE,
                                         dbErr |-> NoErr, err |-> NoErr]
                                   ELSE register(currentInstance, c0, remote, ins,
                                                 setErr, NoErr)
                            key == registryIdentity(ins, getRegistryPrefix)
                            w   == received(at, <<>>,
                                       IF r.put
                                       THEN Watched(<<PutEvent(remote, key,
                                                               InstanceString(ins))>>,
                                                    getRegistryPrefix)
                                       ELSE <<>>)
                        IN  /\ Registry' = SetHandle
                            /\ currentInstance' = r.cur
                            /\ cache' = r.cache
                            /\ remote' = r.store
                            /\ lease' = IF r.put
                                        THEN [k \in DOMAIN lease \cup {key} |->
                                                 IF k = key THEN TRUE ELSE lease[k]]
                                        ELSE lease
                            /\ regQ' = w.q
                            /\ regAt' = w.at
                            /\ owned' = IF r.put THEN ins ELSE owned
                            /\ Storages' = SetHandle
                            /\ stoAt' = "watch"
                            /\ last' = Call("Init", <<>>, ins, r.dbErr, r.err, EmptyBag)

\* a process calling Init, more than once, while the watch tasks Init starts
\* run and another process registers
InitNext ==
    \/ \E typ \in ConfigTypes, dbErr \in DbResults, ins \in OwnInstances \cup {NoInstance},
          setErr \in DbResults, at \in {"watch", "select"} :
          InitCall(typ, dbErr, ins, setErr, at)
    \/ RegWatch
    \/ ApplyRegEvent
    \/ StoWatch
    \/ \E ins \in OtherInstances : OtherRegister(ins)

InitSpec == ProcessStart /\ [][InitNext]_vars

RegistryNext ==
    \/ \E ins \in OwnInstances, dbErr \in DbResults, scanErr \in DbResults :
           Register(ins, dbErr, scanErr)
    \/ \E dbErr \in DbResults : Deregister(dbErr)
    \/ RegWatch
    \/ ApplyRegEvent
    \/ \E ins \in OtherInstances : OtherRegister(ins)
    \/ \E ins \in OtherInstances : OtherGone(registryIdentity(ins, getRegistryPrefix))

RegistrySpec == RegistryInit /\ [][RegistryNext]_vars

\* a process that registers handlers and watches what other processes do
HandlerNext ==
    \/ \E h \in Handlers : RegisterEventHandler(h)
    \/ RegWatch
    \/ ApplyRegEvent
    \/ \E p \in pending : RunHandler(p)
    \/ \E ins \in OtherInstances : OtherRegister(ins)
    \/ \E ins \in OtherInstances : OtherGone(registryIdentity(ins, getRegistryPrefix))

HandlerSpec == WatchingInit /\ [][HandlerNext]_vars

\* a process that registers, its calls and scans succeeding, while other
\* processes register and go, the watch in place from the start
ConvergeNext ==
    \/ \E ins \in OwnInstances : Register(ins, NoErr, NoErr)
    \/ RegWatch
    \/ ApplyRegEvent
    \/ \E ins \in OtherInstances : OtherRegister(ins)
    \/ \E ins \in OtherInstances : OtherGone(registryIdentity(ins, getRegistryPrefix))

ConvergeSpec == WatchingInit /\ [][ConvergeNext]_vars

\* a process whose register call rebuilds the cache step by step while its
\* watch task applies what other processes do
BuildNext ==
    \/ \E ins \in OwnInstances : RegisterWrite(ins)
    \/ BuildScan
    \/ BuildLoad
    \/ BuildStore
    \/ BuildAppend
    \/ BuildReturn
    \/ RegWatch
    \/ ApplyRegEvent
    \/ \E ins \in OtherInstances : OtherRegister(ins)
    \/ \E ins \in OtherInstances : OtherGone(registryIdentity(ins, getRegistryPrefix))

BuildSpec == WatchingInit /\ [][BuildNext]_vars

\* a process with handlers whose watch task is given events it cannot
\* apply among those it can
DropNext ==
    \/ \E h \in Handlers : RegisterEventHandler(h)
    \/ RegWatch
    \/ ApplyRegEvent
    \/ \E p \in pending : RunHandler(p)
    \/ \E ins \in OtherInstances : OtherRegister(ins)
    \/ \E key \in JunkKeys : OtherJunk(key)
    \/ \E key \in JunkKeys : OtherJunkGone(key)

DropSpec == WatchingInit /\ [][DropNext]_vars

\* a process whose goroutines register handlers at the same time while the
\* watch task delivers the registrations of other processes
ChainNext ==
    \/ \E h \in Handlers : RehRead(h)
    \/ \E h \in Handlers : RehWrite(h)
    \/ RegWatch
    \/ ApplyRegEvent
    \/ \E p \in pending : RunHandler(p)
    \/ \E ins \in OtherInstances : OtherRegister(ins)

ChainSpec == WatchingInit /\ [][ChainNext]_vars

\* the calls succeed; the remote store changes under them.  This process
\* writes the int, other clients and the leased writes the string.
StorageNext ==
    \/ \E key \in SetKeys : Set(key, IntOne, NoErr)
    \/ \E key \in TTLKeys, keepalive \in BOOLEAN : SetTTL(key, StrX, keepalive, NoErr)
    \/ \E key \in DeleteKeys : Delete(key, NoErr)
    \/ Rebuild(NoErr)
    \/ StoWatch
    \/ ApplyEvent
    \/ \E key \in OtherKeys : OtherPut(key, StrX)
    \/ \E key \in OtherKeys : OtherDelete(key)
    \/ \E key \in DOMAIN lease : Expire(key)

StorageSpec == Init /\ [][StorageNext]_vars

\* every writing call with every result it may have, errors included
CallNext ==
    \/ \E key \in SetKeys, dbErr \in DbResults : Set(key, IntOne, dbErr)
    \/ \E key \in TTLKeys, keepalive \in BOOLEAN, dbErr \in DbResults :
           SetTTL(key, StrX, keepalive, dbErr)
    \/ \E key \in DeleteKeys, dbErr \in DbResults : Delete(key, dbErr)
    \/ \E dbErr \in DbResults : Rebuild(dbErr)
    \/ StoWatch
    \/ ApplyEvent

CallSpec == Init /\ [][CallNext]_vars

\* one process writing (and reading) alone: its calls succeed, nothing else
\* changes etcd, the cache is not rebuilt
SoloNext ==
    \/ \E key \in SetKeys, value \in Values : Set(key, value, NoErr)
    \/ \E key \in DeleteKeys : Delete(key, NoErr)
    \/ \E k \in GetKeys : GetCall(k)
    \/ StoWatch
    \/ ApplyEvent

SoloSpec == Init /\ [][SoloNext]_vars

\* the same on a namespace that held nothing when the cache was built
FreshInit == Init /\ remote = <<>>

FreshSpec == FreshInit /\ [][SoloNext]_vars

\* a process that sets external handlers and writes through its storage
NotifyNext ==
    \/ \E n \in StorageNames : SetEventHandler(n)
    \/ \E key \in {Ka, Kab} : Set(key, IntOne, NoErr)
    \/ Delete(Ka, NoErr)
    \/ StoWatch
    \/ ApplyEvent

NotifySpec == Init /\ [][NotifyNext]_vars

\* the keys a process writes through the storage n: buildStorageKey of that
\* storage on a and on a/b
KeysThrough(n) ==
    {getStoragePrefix \o <<"storage">> \o <<Separator>> \o n \o <<Separator>> \o k :
        k \in {Ka, Kab}}

\* a process that only watches, other processes writing through the storages
\* of both names
RouteNext ==
    \/ StoWatch
    \/ ApplyEvent
    \/ \E n \in StorageNames : \E key \in KeysThrough(n) : OtherPut(key, StrX)
    \/ \E n \in StorageNames : \E key \in KeysThrough(n) : OtherDelete(key)

RouteSpec == Init /\ [][RouteNext]_vars

\* a process writing through its storage while other processes write the same
\* keys, its watch having been created before any of the writes
RaceNext ==
    \/ \E key \in {Ka, Kab} : Set(key, IntOne, NoErr)
    \/ \E key \in {Ka, Kab} : Delete(key, NoErr)
    \/ StoWatch
    \/ ApplyEvent
    \/ \E key \in {Ka, Kab} : OtherPut(buildStorageKey(key), StrX)
    \/ \E key \in {Ka, Kab} : OtherDelete(buildStorageKey(key))

RaceSpec == WatchedInit /\ [][RaceNext]_vars

\* storages whose cache of the name does not exist yet, the watch of
\* newStorages in place
NoCacheInit ==
    /\ name \in StorageNames
    /\ remote \in InitialStores
    /\ root = NilRoot
    /\ lease = <<>>
    /\ watchQ = <<>>
    /\ stoAt = "select"
    /\ watchLog = NoLog(FALSE)
    /\ stoEvs = {}
    /\ stoCalls = <<>>
    /\ ctxDone = FALSE
    /\ last = [at |-> 0, op |-> "none", key |-> <<>>, value |-> NoValue,
               dbErr |-> NoErr, err |-> NoErr, vs |-> EmptyBag]
    /\ ops = 0
    /\ currentInstance = NoInstance
    /\ cache = <<>>
    /\ regQ = <<>>
    /\ regAt = "watch"
    /\ evs = <<>>
    /\ pending = {}
    /\ invoked = <<>>
    /\ owed = {}
    /\ panicked = FALSE
    /\ owned = NoInstance
    /\ stoM = NoCache
    /\ getAt = [c \in Callers |-> NotCalled]
    /\ build = NoBuild
    /\ walk = NoWalk
    /\ rehAt = [h \in Handlers |-> NotRegistering]
    /\ onceLoad = TRUE
    /\ Registry = SetHandle
    /\ Storages = SetHandle

\* the first GetStorage(name) of a process, other processes writing the
\* namespace of the storage while the call is in progress
MaterialiseNext ==
    \/ GsLoad(1)
    \/ GsBuild(1, NoErr)
    \/ GsStore(1)
    \/ StoWatch
    \/ ApplyEvent
    \/ \E key \in {Ka, Kab} :
          getAt[1].pc \in {"missed", "built"} /\ OtherPut(buildStorageKey(key), StrX)
    \/ \E key \in {Ka, Kab} :
          getAt[1].pc \in {"missed", "built"} /\ OtherDelete(buildStorageKey(key))

MaterialiseSpec == NoCacheInit /\ [][MaterialiseNext]_vars

\* goroutines of a process calling GetStorage(name) at the same time, other
\* processes writing the namespace of the storage
GetNext ==
    \/ \E c \in Callers : GsLoad(c)
    \/ \E c \in Callers : GsBuild(c, NoErr)
    \/ \E c \in Callers : GsStore(c)
    \/ StoWatch
    \/ ApplyEvent
    \/ \E key \in {Ka, Kab} : OtherPut(buildStorageKey(key), StrX)

GetSpec == NoCacheInit /\ [][GetNext]_vars

\* a process that gets its storage, the scan failing or not, and uses it
ScanNext ==
    \/ GsLoad(1)
    \/ \E dbErr \in DbResults : GsBuild(1, dbErr)
    \/ GsStore(1)
    \/ \E key \in {Ka, Kab} : getAt[1].pc = "returned" /\ Set(key, IntOne, NoErr)
    \/ \E key \in {Ka, KaSlash} : getAt[1].pc = "returned" /\ Delete(key, NoErr)
    \/ \E k \in {<<>>, Ka} : getAt[1].pc = "returned" /\ GetCall(k)
    \/ \E dbErr \in DbResults : getAt[1].pc = "returned" /\ Rebuild(dbErr)
    \/ StoWatch
    \/ ApplyEvent

ScanSpec == NoCacheInit /\ [][ScanNext]_vars

\* a process whose Get walks the tree while its Sets go on; a Set whose node
\* the Get has locked waits for the lock
WalkNext ==
    \/ \E k \in {<<>>, Ka, Kab} : DfsStart(k)
    \/ DfsDescend
    \/ DfsReturn
    \/ DfsEnd
    \/ \E key \in {Ka, Kab, Kac} :
          Split(key, Separator) \notin Locked /\ Set(key, IntOne, NoErr)

WalkSpec == WatchedInit /\ [][WalkNext]_vars

\* the watch task of the storages under commits of this process and of
\* others, its first watch in place and its context live throughout
LoggedNext ==
    \/ StoWatch
    \/ ApplyEvent
    \/ \E key \in {Ka, Kab} : Set(key, IntOne, NoErr)
    \/ Delete(KaSlash, NoErr)
    \/ \E key \in {Ka, Kab} : \E value \in Values : OtherPut(buildStorageKey(key), value)
    \/ \E key \in {Ka, Kab} : OtherDelete(buildStorageKey(key))

LoggedSpec == LoggedInit /\ [][LoggedNext]_vars

\* both watch tasks of a process whose context may be cancelled, other
\* processes changing what they watch
CancelNext ==
    \/ Cancel
    \/ StoWatch
    \/ RegWatch
    \/ ApplyEvent
    \/ ApplyRegEvent
    \/ StoStop
    \/ RegStop
    \/ \E key \in OtherKeys : OtherPut(key, StrX)
    \/ \E ins \in OtherInstances : OtherRegister(ins)
    \/ \E ins \in OtherInstances : OtherGone(registryIdentity(ins, getRegistryPrefix))

\* the step just taken is the storage watch handler on the head of watchQ
Handled == stoAt = "handle" /\ watchQ' = Tail(watchQ)

\* WF_vars(ApplyEvent) written out, ApplyEvent being enabled exactly where
\* its two guards hold and its steps being the steps that take the head off
\* watchQ
FairApplyEvent ==
    <>[](~panicked /\ stoAt = "handle") => []<><<Handled>>_vars

\* the scheduler runs every goroutine that can run, and a select with the
\* case of ctx.Done() ready takes it sooner or later (Go picks among the
\* ready cases at random)
CancelSpec ==
    /\ Init
    /\ [][CancelNext]_vars
    /\ FairApplyEvent
    /\ WF_vars(ApplyRegEvent)
    /\ WF_vars(StoStop)
    /\ WF_vars(RegStop)

\* ------------------------------------------------------------ observations
\* the step just taken is the call op
Called(op) == last'.at # last.at /\ last'.op = op

\* the comparison check() of TestCachedStorage makes between Get() and a
\* prefix scan of the namespace: as many entries, every scanned key cached
\* with the same String(), nothing else cached
FlatEqualsScan(tree, store) ==
    LET vs   == dfs(tree, <<>>)
        scan == GetPrefix(store, buildStorageKey(<<>>))
    IN  /\ BagCardinality(vs) = Len(scan)
        /\ \A i \in 1..Len(scan) :
             \E kv \in BagToSet(vs) :
                /\ kv.Key = scan[i].Key
                /\ VarString(kv.Value) = VarString(scan[i].Value)

\* the values of the node at path and of every node below it
RECURSIVE ValuesOf(_, _)
ValuesOf(tree, nodes) ==
    IF nodes = {} THEN EmptyBag
    ELSE LET n == CHOOSE x \in nodes : TRUE
         IN  SeqToBag(tree[n]) (+) ValuesOf(tree, nodes \ {n})

Subtree(tree, path) == {n \in DOMAIN tree : HasPrefix(n, path)}

\* the entries of a bag of kvs stored under key
WithKey(vs, key) == {kv \in BagToSet(vs) : kv.Key = key}

\* the key is cached as the remote store holds it: one value of the same
\* string under the key when the store has the key, none when it has not
CachedAsRemote(tree, store, key) ==
    LET held == WithKey(dfs(tree, <<>>), key)
    IN  IF key \in DOMAIN store
        THEN /\ held # {}
             /\ \A kv \in held : VarString(kv.Value) = store[key]
        ELSE held = {}

\* the identities registered in the remote store: its keys under the
\* registry prefix, the prefix taken off
RemoteIdentities(store) ==
    {TrimPrefix(k, getRegistryPrefix) : k \in {x \in DOMAIN store : HasPrefix(x, getRegistryPrefix)}}

\* the step just taken is the registry watch handler on the head of regQ
RegHandled == regAt = "handle" /\ regQ' = Tail(regQ)

\* an event the registry watch handler cannot apply to the cache: a create
\* or update whose value is no instance, a delete of an identity not cached
Inapplicable(services, e) ==
    IF e.Type = "delete"
    THEN TrimPrefix(e.Key, getRegistryPrefix) \notin CachedIdentities(services)
    ELSE Struct(e.Value).err # NoErr

\* s with its i-th element taken out
Without(s, i) == SubSeq(s, 1, i - 1) \o SubSeq(s, i + 1, Len(s))

\* ------------------------------------------------------------ claims

\* C1: when the remote write of Set, SetTTL or Delete fails, the call
\* returns that very error and leaves the tree as it was.
C1_FailedWriteLeavesTree ==
    [][(\E op \in {"Set", "SetTTL", "Delete"} : Called(op)) /\ last'.dbErr # NoErr
        => last'.err = last'.dbErr /\ root' = root]_vars

\* a Delete of a cached key failed
C1_Witness ==
    /\ last.op = "Delete"
    /\ last.dbErr \in DbErrors
    /\ WithKey(dfs(root, <<>>), buildStorageKey(last.key)) # {}

\* C2 (as claimed): right after a successful Set(key, value), Get(key)
\* succeeds with exactly one KV, holding the written value, and Get() holds it.
C2_GetReturnsExactlyOne ==
    [][Called("Set") /\ last'.err = NoErr
        => LET g == Get(root', last'.key)
           IN  /\ g.err = NoErr
               /\ BagCardinality(g.vs) = 1
               /\ \A kv \in BagToSet(g.vs) :
                     /\ kv.Value = NewVar(last'.value)
                     /\ BagIn(kv, Get(root', <<>>).vs)]_vars

\* C3: Get(key), every segment of key having a node, returns the values of
\* the resolved node and of all nodes below it, each exactly once.
C3_GetReturnsSubtree ==
    \A k \in GetKeys \ {<<>>} :
        Split(k, Separator) \in DOMAIN root
        => LET g == Get(root, k)
           IN  /\ g.err = NoErr
               /\ g.vs = ValuesOf(root, Subtree(root, Split(k, Separator)))

\* key3, key3/1 and key3/2 were Set and Get(key3) returns the three
C3_Witness ==
    /\ \A k \in {Ka, Kab, Kac} : Split(k, Separator) \in DOMAIN root
    /\ \A kv \in BagToSet(Get(root, Ka).vs) : kv.Value.val.type # "bytes"
    /\ BagCardinality(Get(root, Ka).vs) = 3
    /\ \A k \in {Ka, Kab, Kac} :
          Cardinality(WithKey(Get(root, Ka).vs, buildStorageKey(k))) = 1

\* C4: a successful Delete(key), key not ending in the separator, removes no
\* node, and from the value lists at most one entry, stored under the key.
C4_DeleteRemovesOneValue ==
    [][Called("Delete") /\ last'.err = NoErr /\ ~HasSuffix(last'.key, <<Separator>>)
        => /\ DOMAIN root' = DOMAIN root
           /\ \/ root' = root
              \/ \E n \in DOMAIN root : \E i \in 1..Len(root[n]) :
                    /\ root[n][i].Key = buildStorageKey(last'.key)
                    /\ root' = [root EXCEPT ![n] = Without(root[n], i)]]_vars

\* key3/1 was deleted, key3 and key3/2 are still returned
C4_Witness ==
    /\ last.op = "Delete"
    /\ last.err = NoErr
    /\ last.key = Kab
    /\ WithKey(dfs(root, <<>>), buildStorageKey(Kab)) = {}
    /\ WithKey(Get(root, Ka).vs, buildStorageKey(Ka)) # {}
    /\ WithKey(Get(root, Kac).vs, buildStorageKey(Kac)) # {}

\* C5 (as claimed): after a successful Delete(key), key ending in the
\* separator, the tree holds no entry whose key has the target as a prefix.
C5_DeleteDropsSubtree ==
    [][Called("Delete") /\ last'.err = NoErr /\ HasSuffix(last'.key, <<Separator>>)
        => \A kv \in BagToSet(dfs(root', <<>>)) :
              ~HasPrefix(kv.Key, buildStorageKey(last'.key))]_vars

\* C6 (as claimed): one process writing alone, every call returned and every
\* event handled: Get() and the prefix scan of the namespace agree.
C6_LocalEqualsRemote ==
    watchQ = <<>> => FlatEqualsScan(root, remote)

\* C7: right after a buildCache whose scan succeeded, Get() and the prefix
\* scan of the namespace agree.
C7_RebuildEqualsScan ==
    [][Called("buildCache") /\ last'.dbErr = NoErr
        => FlatEqualsScan(root', remote')]_vars

\* a rebuild after two other calls, of a namespace holding keys
C7_Witness ==
    /\ last.op = "buildCache"
    /\ last.dbErr = NoErr
    /\ last.at >= 3
    /\ ops = last.at
    /\ DOMAIN remote # {}
    /\ FlatEqualsScan(root, remote)

\* C8 (as claimed): a key written with SetTTL is returned by Get right after
\* the call, and once etcd has removed it and the storage watch has delivered
\* the delete event of the key to its handler, Get of the key no longer
\* returns the written value.
C8_TTLExpiryReachesCache ==
    [][/\ Called("SetTTL") /\ last'.err = NoErr
          => \E kv \in BagToSet(Get(root', last'.key).vs) :
                VarString(kv.Value) = gconvString(last'.value)
       /\ (/\ last.op = "SetTTL"
           /\ last.err = NoErr
           /\ stoAt = "handle"
           /\ Head(watchQ).Type = "delete"
           /\ Head(watchQ).Key = storageSetTTLKey(last.key)
           /\ watchQ' = Tail(watchQ)
           /\ last' = last)
          => \A kv \in BagToSet(Get(root', last.key).vs) :
                VarString(kv.Value) # gconvString(last.value)]_vars

\* the number of instances the cache holds for a service
InstanceCount(services, serviceName) ==
    IF serviceName \in DOMAIN services THEN Len(services[serviceName]) ELSE 0

\* C9: a register call made with currentInstance set, or with an instance of
\* the same identity in the cached list of its service, returns
\* AlreadyRegistered, writes nothing to etcd and adds no instance.
C9_RegisterTwiceRejected ==
    [][/\ Called("register")
       /\ \/ currentInstance # NoInstance
          \/ /\ last'.value.ServiceName \in DOMAIN cache
             /\ HasIdentity(cache[last'.value.ServiceName], Identity(last'.value))
       => /\ last'.err = ErrAlreadyRegistered
          /\ remote' = remote
          /\ regQ' = regQ
          /\ InstanceCount(cache', last'.value.ServiceName)
                <= InstanceCount(cache, last'.value.ServiceName)]_vars

\* the first call of the run is a register of an identity another process
\* holds: currentInstance was nil, the cached list decided
C9_Witness ==
    /\ ops = 1
    /\ last.op = "register"
    /\ last.err = ErrAlreadyRegistered
    /\ HasIdentity(cache[last.value.ServiceName], Identity(last.value))

\* C10 (as claimed): a register call that returns an error leaves the
\* registry cache as it was.
C10_FailedRegisterLeavesCache ==
    [][Called("register") /\ last'.err # NoErr => cache' = cache]_vars

\* C11 (as claimed): Deregister leaves the cache alone; with an instance
\* registered it issues the remote delete of that instance's key and nothing
\* else, and with none registered (no register call has succeeded) it issues
\* no remote call, changes nothing in etcd and returns no error.
C11_DeregisterDeletesOwnKey ==
    [][Called("Deregister")
        => /\ cache' = cache
           /\ IF owned # NoInstance
              THEN /\ last'.key = registryIdentity(owned, getRegistryPrefix)
                   /\ remote' \in {remote, etcdDelete(remote, last'.key)}
              ELSE /\ last'.key = <<>>
                   /\ remote' = remote
                   /\ last'.err = NoErr]_vars

\* C12 (as claimed): between calls and event applications every Service of
\* the cache holds at least one instance, so GetService of a name succeeds
\* only with a non-empty instance list.
C12_NoEmptyService ==
    \A n \in DOMAIN cache :
        /\ Len(cache[n]) >= 1
        /\ GetService(cache, n).err = NoErr => Len(GetService(cache, n).service) >= 1

\* C13 (as claimed): a handler in the chain when another process commits a
\* create, update or delete of a registration is invoked for that change with
\* the event type and the instance of the change.  Stated where it can no
\* longer come true: once the watch task has no event in hand and no handler
\* goroutine is waiting to run, every such change has had its invocation.
C13_HandlerInvokedForChange ==
    (regAt # "handle" /\ pending = {})
        => \A c \in owed :
              \E i \in DOMAIN invoked :
                 /\ invoked[i].h = c.h
                 /\ invoked[i].e = c.e
                 /\ invoked[i].ins = c.ins

\* C14 (as claimed): a handler's invocations begin in the order the watch
\* delivered the events: of two invocations of the same handler, the one for
\* the event delivered first comes first.
C14_HandlerSeesDeliveryOrder ==
    \A i, j \in DOMAIN invoked :
        (i < j /\ invoked[i].h = invoked[j].h) => invoked[i].n < invoked[j].n


\* C15 (as claimed): when the registration of another process is deleted by
\* etcd, this process applies the delete event and no longer holds the
\* instance.  Stated where it can no longer come true: once the watch task
\* has no event in hand, every instance in the cache is still registered.
C15_ExpiredInstanceLeavesCache ==
    regAt # "handle"
        => \A id \in CachedIdentities(cache) : getRegistryPrefix \o id \in DOMAIN remote

\* C16: a Get of a key some segment of whose path has no node returns the
\* not-found error and no value, and no Get, failing or not, with a key or
\* without, changes the tree.
C16_GetNotFoundAndReadOnly ==
    [][Called("Get")
        => /\ root' = root
           /\ (/\ last'.key # <<>>
               /\ \E q \in Prefixes(Split(last'.key, Separator)) : q \notin DOMAIN root)
              => /\ last'.err = ErrStorageNotFound
                 /\ last'.vs = EmptyBag]_vars

\* a Get of a key whose first segment has a node and whose second has not
\* has failed on a tree that holds values
C16_Witness ==
    /\ last.op = "Get"
    /\ last.at = ops
    /\ last.err = ErrStorageNotFound
    /\ Len(Split(last.key, Separator)) = 2
    /\ SubSeq(Split(last.key, Separator), 1, 1) \in DOMAIN root
    /\ Split(last.key, Separator) \notin DOMAIN root
    /\ BagCardinality(dfs(root, <<>>)) > 0

\* C17 (as claimed): with an external handler set for the name of the
\* storage, the watch handler, given an event of a key under the prefix the
\* storage writes its keys with, calls the external handler once, with the
\* event's type, the key relative to the storage and the value, the cache
\* updated by then.
C17_ExternalHandlerGetsEvent ==
    [][(/\ Handled
        /\ name \in stoEvs
        /\ HasPrefix(Head(watchQ).Key, buildStorageKey(<<>>)))
        => /\ Len(stoCalls') = Len(stoCalls) + 1
           /\ LET c == stoCalls'[Len(stoCalls')]
                  e == Head(watchQ)
              IN  /\ c.to = name
                  /\ c.Type = e.Type
                  /\ c.Key = TrimPrefix(e.Key, buildStorageKey(<<>>))
                  /\ c.Value = e.Value
                  /\ c.tree = root']_vars

\* C18: once the context is cancelled both watch tasks return (unless the
\* process has died of a panic before), and after a task has returned no
\* event changes its cache: the tree changes with foreground calls only, and
\* so does the registry cache.
C18_CancelStopsWatchTasks ==
    /\ ctxDone ~> (panicked \/ (stoAt = "done" /\ regAt = "done"))
    /\ [][stoAt = "done" => (root' # root => last'.at # last.at)]_vars
    /\ [][regAt = "done" => (cache' # cache => last'.at # last.at)]_vars

\* both tasks have returned after the cancel, the registry task having
\* applied an event before and etcd having changed twice
C18_Witness ==
    /\ ctxDone
    /\ stoAt = "done"
    /\ regAt = "done"
    /\ cache # <<>>
    /\ ops >= 2

\* C19 (as claimed): the tree a successful Set(K, v) leaves is the tree
\* handleEvent leaves when given a create or an update of K with v, and the
\* tree a successful Delete(K) leaves is the tree handleEvent leaves when
\* given a delete of K.
C19_EventAppliesAsCallDoes ==
    [][/\ (Called("Set") /\ last'.err = NoErr)
          => \A t \in {"create", "upsert"} :
                handleEvent(root, t, last'.key, last'.value) = root'
       /\ (Called("Delete") /\ last'.err = NoErr)
          => handleEvent(root, "delete", last'.key, NoValue) = root']_vars

\* C20 (as claimed): the watch handler applies an event of a key the storage
\* of the cache writes (a key under buildStorageKey()) to that cache, with the
\* key relative to the storage, and applies an event of any other key to it
\* not at all.
C20_EventRoutedToItsStorage ==
    [][Handled
        => LET e    == Head(watchQ)
               base == buildStorageKey(<<>>)
           IN  IF HasPrefix(e.Key, base)
               THEN root' = handleEvent(root, e.Type, TrimPrefix(e.Key, base), e.Value)
               ELSE root' = root]_vars

\* C21: local Set/Delete calls and remote events on the same key may
\* interleave in any way; once the calls have returned and every delivered
\* event has been applied (the watch task is not handling a response), the
\* cache holds for the key the value the remote store holds, and does not
\* hold the key when the remote store does not.
C21_CacheFollowsRemote ==
    stoAt # "handle" =>
        \A key \in {Ka, Kab} : CachedAsRemote(root, remote, buildStorageKey(key))

\* C22: the cache the first GetStorage(name) creates accounts for every
\* remote change, those committed while the call is in progress included:
\* once the call has returned and every delivered event has been applied,
\* the flattened contents of the cache are the remote namespace.
C22_MaterialisedCacheIsRemote ==
    (getAt[1].pc = "returned" /\ stoAt # "handle") => FlatEqualsScan(root, remote)

\* C23: whatever the interleaving of the rebuilds (the one of startup, the
\* one after register) with the watch events, once the rebuilds are over and
\* every delivered event has been applied, the identities cached are the
\* registration keys the remote store holds.
C23_RegistryConverges ==
    (~panicked /\ regAt # "handle") => CachedIdentities(cache) = RemoteIdentities(remote)

\* C24: a rebuild of the registry cache that runs while the watch task
\* applies events removes no instance: every identity cached when the
\* rebuild began, or put by a create/update event while it ran, is cached
\* when it ends and after, unless a delete event for it was applied.
C24_RebuildKeepsInstances ==
    build.pc = "done" => build.keep \subseteq CachedIdentities(cache)

\* C25: in every reachable state no Service's list holds two instances of
\* the same identity, however often a registration key is replayed by
\* create/update events and rebuilds.
C25_OneInstancePerIdentity ==
    \A n \in DOMAIN cache :
        \A i, j \in 1..Len(cache[n]) :
            Identity(cache[n][i]) = Identity(cache[n][j]) => i = j

\* C26: a registry watch event that cannot be applied (a create/update
\* whose value does not decode, a delete that matches no cached instance)
\* leaves the cache exactly as it was; such a delete reaches every
\* subscriber with a nil instance; and the watch task keeps running.
C26_UnappliedEventIsDropped ==
    [][(RegHandled /\ Inapplicable(cache, Head(regQ)))
        => /\ cache' = cache
           /\ ~panicked'
           /\ Head(regQ).Type = "delete" =>
                 \A i \in DOMAIN evs :
                    \E p \in pending' \ pending :
                       p.h = evs[i] /\ p.e = "delete" /\ p.ins = NoInstance]_vars

\* C27: RegisterEventHandler may be called from several goroutines at
\* once: every handler whose registration has returned is in the chain,
\* exactly once (and so is started by every pushEvent from then on).
C27_RegisteredHandlerInChain ==
    \A h \in Handlers :
        rehAt[h].pc = "done" => Cardinality({i \in DOMAIN evs : evs[i] = h}) = 1

\* C28: GetStorage calls made at the same time with the same name all
\* return the same cache, the one s.m holds and the watch handler updates.
C28_OneCachePerName ==
    \A c \in Callers :
        getAt[c].pc = "returned" => getAt[c].cs = stoM

\* C29: a cached storage GetStorage has returned always has a root node,
\* also when its first scan or a later rebuild failed (a failed scan leaves
\* the tree there was, an empty root when there was none), so that no Get,
\* Set or Delete dereferences a missing root.
C29_RootAlwaysThere ==
    getAt[1].pc = "returned" => (root # NilRoot /\ ~panicked)

\* C30: during the dfs of Get the lock of a node is held only while the
\* node's values are copied and is released before the descent into its
\* children: at every moment a Get holds the lock of at most one node.
C30_OneLockAtATime ==
    Cardinality(Locked) <= 1

\* C31 (as claimed): the watch task hands its handler every change committed
\* under the watched prefix since its watch was started, once each and in
\* commit order, skipping none: what it has delivered so far is the
\* beginning of what has been committed.
C31_WatchDeliversInCommitOrder ==
    /\ Len(watchLog.delivered) <= Len(watchLog.committed)
    /\ watchLog.delivered = SubSeq(watchLog.committed, 1, Len(watchLog.delivered))

\* C32 (as claimed): a call of Init that returns a nil error leaves the
\* globals Registry and Storages set, whether it is the first call of the
\* process or a later one, an earlier call having failed or not; and the
\* initialisation runs once: a call made after onceLoad has run changes
\* neither global.
C32_NilErrorMeansInitialised ==
    [][Called("Init")
        => /\ last'.err = NoErr => (Registry' # NilHandle /\ Storages' # NilHandle)
           /\ onceLoad => UNCHANGED <<Registry, Storages>>]_vars

====
